---- MODULE Spec2Model ----
(***************************************************************************)
(* Model of the Solis class of src/mapped/solis.mjs: the time-series store *)
(* (update, cleardown), the statistics derived from it (powerAt,           *)
(* getHistory), the firmware classification and the inverter control       *)
(* operations.                                                             *)
(*                                                                         *)
(* Energy values are integers in thousandths of a kWh; times are           *)
(* milliseconds counted from the midnight of day 0.                        *)
(***************************************************************************)
EXTENDS Integers, Sequences, FiniteSets, TLC

VARIABLES
  now,          \* date.now().timeIndex
  data,         \* glsdb node 'solis': <<dateIndex, timeIndex>> -> snapshot document
  movingAveragePeriod,  \* agility.movingAveragePeriod
  last,         \* the last store operation run: its arguments, the vendor's response, its result
  config,       \* config 'solisCloud': whether it exists, and has inverterSn, key, secret
  firmwareVersion,      \* config 'firmwareVersion': "" while the node does not exist
  flags,        \* agility.chargingEnabled, agility.dischargingEnabled, keepInverterTimeSynchronised
  battery,      \* config battery.chargeCurrent and battery.dischargeCurrent: <<>> while not set
  inverter,     \* the inverter: its settings string (cid 4643), its state-of-charge targets
  dischargeControlFlag, \* the battery collaborator's "discharge requested" flag
  chargeHistory,        \* glsdb node 'agilityChargeHistory': <<slotTimeIndex, field>> -> value
  proc          \* the invocations of control operations: position, locals, calls issued, result

storeVars == <<data, movingAveragePeriod, last>>

ctlVars == <<config, firmwareVersion, flags, battery, inverter, dischargeControlFlag, chargeHistory, proc>>

vars == <<now, storeVars, ctlVars>>

----------------------------------------------------------------------------
(* Bounds *)

MaxDay == 3          \* the clock runs over the days 1..MaxDay
MaxBatch == 2        \* samples in one inverterDay response
MaxPeriod == 1       \* movingAveragePeriod ranges over 1..MaxPeriod
MaxRecords == 2      \* records in one inverterList response

(* Program constants *)

SlotMs == 1800000    \* half an hour
NSlots == 47         \* boundaries examined per day

DayMs == 48 * SlotMs
QuarterMs == SlotMs \div 2

----------------------------------------------------------------------------
(* JavaScript values: numbers, NaN, undefined and strings read from the    *)
(* store.                                                                  *)

Num(n) == [t |-> "number", v |-> n]
NaN == [t |-> "NaN", v |-> 0]
Undefined == [t |-> "undefined", v |-> 0]
EmptyString == [t |-> "string", v |-> 0]

IsNum(x) == x.t = "number"

\* obj[name]
Get(obj, name) == IF name \in DOMAIN obj THEN obj[name] ELSE Undefined

\* x + 0 (the empty string concatenates to "0")
PlusZero(x) ==
  CASE x.t = "number" -> x
    [] x.t = "string" -> Num(0)
    [] OTHER -> NaN

\* a - b
Minus(a, b) == IF IsNum(a) /\ IsNum(b) THEN Num(a.v - b.v) ELSE NaN

\* +(x).toFixed(2): round to hundredths (tens of thousandths), half away from zero
Round2(n) == IF n >= 0 THEN ((n + 5) \div 10) * 10 ELSE 0 - (((0 - n) + 5) \div 10) * 10

ToFixed2(x) == IF IsNum(x) THEN Num(Round2(x.v)) ELSE NaN

----------------------------------------------------------------------------
(* The date utility *)

DateIndexOf(timeIndex) == (timeIndex \div DayMs) * DayMs

\* date.atMidnight(offset).timeIndex
AtMidnight(offset) == DateIndexOf(now) + offset * DayMs

----------------------------------------------------------------------------
(* The store *)

DateKeys(d) == {k[1] : k \in DOMAIN d}

TimeKeys(d, dateIndex) == {k[2] : k \in {x \in DOMAIN d : x[1] = dateIndex}}

SetMax(S) == CHOOSE x \in S : \A y \in S : y <= x

SetMin(S) == CHOOSE x \in S : \A y \in S : x <= y

\* The store's document written for one vendor sample (update, the object literal)
Document(snapshot) ==
  [pvOutputNow |-> snapshot.pac,            \* W / 1000 = kW, kept in thousandths
   pvOutputTotal |-> snapshot.eToday,
   houseLoadNow |-> snapshot.familyLoadPower,
   houseLoadTotal |-> snapshot.homeLoadTodayEnergy,
   gridImportNow |-> 0 - snapshot.pSum,
   gridImportTotal |-> snapshot.gridPurchasedTodayEnergy,
   gridExportTotal |-> snapshot.gridSellTodayEnergy,
   batteryLevel |-> snapshot.batteryCapacitySoc,
   batteryChargePower |-> snapshot.batteryPower]

\* One pass of update's loop body: write the sample unless its key exists or
\* its homeLoadTodayEnergy is zero.
StoreOverwrite(d, dateIndex, snapshot) ==
  IF snapshot.homeLoadTodayEnergy # 0
    THEN [k \in DOMAIN d \cup {<<dateIndex, snapshot.dataTimestamp>>} |->
            IF k = <<dateIndex, snapshot.dataTimestamp>> THEN Document(snapshot) ELSE d[k]]
    ELSE d

StoreZero(d, dateIndex, snapshot) ==
  IF <<dateIndex, snapshot.dataTimestamp>> \notin DOMAIN d
    THEN d @@ (<<dateIndex, snapshot.dataTimestamp>> :> Document(snapshot))
    ELSE d

StoreSampleRounded(d, dateIndex, snapshot) ==
  LET slot == (snapshot.dataTimestamp \div SlotMs) * SlotMs IN
  IF <<dateIndex, slot>> \notin DOMAIN d /\ snapshot.homeLoadTodayEnergy # 0
    THEN d @@ (<<dateIndex, slot>> :> Document(snapshot))
    ELSE d

StoreSample(d, dateIndex, snapshot) ==
  IF <<dateIndex, snapshot.dataTimestamp>> \notin DOMAIN d /\ snapshot.homeLoadTodayEnergy # 0
    THEN d @@ (<<dateIndex, snapshot.dataTimestamp>> :> Document(snapshot))
    ELSE d

\* update's loop over resp.data
RECURSIVE StoreAll(_, _, _)
StoreAll(d, dateIndex, batch) ==
  IF batch = <<>> THEN d
  ELSE StoreAll(StoreSample(d, dateIndex, Head(batch)), dateIndex, Tail(batch))

----------------------------------------------------------------------------
(* What the vendor can answer to inverterDay *)

Variants ==
  { [pac |-> 0,   eToday |-> 0,    familyLoadPower |-> 250, homeLoadTodayEnergy |-> 0,
     pSum |-> -250, gridPurchasedTodayEnergy |-> 100, gridSellTodayEnergy |-> 0,
     batteryCapacitySoc |-> 20, batteryPower |-> 0],
    [pac |-> 500, eToday |-> 2000, familyLoadPower |-> 300, homeLoadTodayEnergy |-> 1500,
     pSum |-> 200, gridPurchasedTodayEnergy |-> 700, gridSellTodayEnergy |-> 300,
     batteryCapacitySoc |-> 40, batteryPower |-> 100],
    [pac |-> 800, eToday |-> 3200, familyLoadPower |-> 400, homeLoadTodayEnergy |-> 2504,
     pSum |-> 400, gridPurchasedTodayEnergy |-> 900, gridSellTodayEnergy |-> 650,
     batteryCapacitySoc |-> 55, batteryPower |-> 150] }

\* offsets of the samples into their day: 60 and 120 minutes
TsOffsets == {2 * SlotMs, 4 * SlotMs}

\* ... in the runs over several days: 60 minutes
FewOffsets == {2 * SlotMs}

NoResponse == [kind |-> "none", data |-> <<>>]

Sample(variant, ts) ==
  [dataTimestamp |-> ts, pac |-> variant.pac, eToday |-> variant.eToday,
   familyLoadPower |-> variant.familyLoadPower,
   homeLoadTodayEnergy |-> variant.homeLoadTodayEnergy, pSum |-> variant.pSum,
   gridPurchasedTodayEnergy |-> variant.gridPurchasedTodayEnergy,
   gridSellTodayEnergy |-> variant.gridSellTodayEnergy,
   batteryCapacitySoc |-> variant.batteryCapacitySoc,
   batteryPower |-> variant.batteryPower]

Samples(dateIndex, offsets) ==
  {Sample(v, dateIndex + off) : v \in Variants, off \in offsets}

SeqsUpTo(S, n) == UNION {[1..k -> S] : k \in 0..n}

\* request() and inverterDayAPI(): the shapes of resp
DayResponses(dateIndex, offsets, maxLen) ==
  {[kind |-> "ok", data |-> b] : b \in SeqsUpTo(Samples(dateIndex, offsets), maxLen)}
  \cup {[kind |-> k, data |-> <<>>] : k \in {"status", "exception", "nodata", "notarray"}}

----------------------------------------------------------------------------
(* The credentials *)

Complete == [exists |-> TRUE, inverterSn |-> TRUE, key |-> TRUE, secret |-> TRUE]

\* the configuration absent, complete, or lacking one of the three values
Configs ==
  {Complete, [Complete EXCEPT !.exists = FALSE], [Complete EXCEPT !.inverterSn = FALSE],
   [Complete EXCEPT !.key = FALSE], [Complete EXCEPT !.secret = FALSE]}

isConfiguredWithoutSecret == config.exists /\ config.inverterSn /\ config.key

isConfigured == config.exists /\ config.inverterSn /\ config.key /\ config.secret

----------------------------------------------------------------------------
(* update(offset) *)

\* no store operation has run yet
NoLast ==
  [op |-> "none", offset |-> 0, resp |-> NoResponse, ret |-> "none", before |-> {},
   calls |-> <<>>, attempts |-> <<>>, rets |-> <<>>, cleared |-> FALSE]

\* inverterDayAPI(offset) as update() sees it: without credentials an error
\* and no call; else what request() and the vendor made of the call
updateResult(resp) == IF isConfigured /\ resp.kind = "ok" THEN "ok" ELSE "error"

\* the store after update(offset)
updateData(d, offset, resp) ==
  IF updateResult(resp) = "ok" THEN StoreAll(d, AtMidnight(offset), resp.data) ELSE d

\* resp is the vendor's answer, NoResponse where no call is made
Update(offset, resp) ==
  /\ isConfigured \/ resp = NoResponse
  /\ isConfigured => resp # NoResponse
  /\ last' = [NoLast EXCEPT !.op = "update", !.offset = offset, !.resp = resp,
                            !.ret = updateResult(resp), !.before = DateKeys(data),
                            !.calls = IF isConfigured THEN <<offset>> ELSE <<>>,
                            !.attempts = <<offset>>, !.rets = <<updateResult(resp)>>]
  /\ data' = updateData(data, offset, resp)
  /\ UNCHANGED <<now, movingAveragePeriod, ctlVars>>

----------------------------------------------------------------------------
(* powerAt(dateIndex, timeIndex) *)

\* the document at <<dateIndex, timeIndex>> as powerAt's second return builds it
NeighbourFields(d, dateIndex, timeIndex) ==
  LET doc == d[<<dateIndex, timeIndex>>] IN
  [batteryLevel |-> Num(doc.batteryLevel),
   houseLoadTotal |-> Num(doc.houseLoadTotal),
   gridExportTotal |-> Num(doc.gridExportTotal),
   gridImportTotal |-> Num(doc.gridImportTotal),
   pvOutputTotal |-> Num(doc.pvOutputTotal)]

\* ... and as its first return builds it: the key 'gridimportTotal' names no
\* field of the document, whose value reads as the empty string
ExactFields(d, dateIndex, timeIndex) ==
  LET doc == d[<<dateIndex, timeIndex>>] IN
  [batteryLevel |-> Num(doc.batteryLevel),
   houseLoadTotal |-> Num(doc.houseLoadTotal),
   gridExportTotal |-> Num(doc.gridExportTotal),
   gridimportTotal |-> EmptyString,
   pvOutputTotal |-> Num(doc.pvOutputTotal)]

\* the key powerAt settles on when no sample sits at timeIndex; 0 stands for
\* undefined (!beforeIndex and !afterIndex are true of both)
Nearest(d, dateIndex, timeIndex) ==
  LET keys == TimeKeys(d, dateIndex)
      before == {t \in keys : t < timeIndex}
      after == {t \in keys : t > timeIndex}
      beforeIndex == IF before = {} THEN 0 ELSE SetMax(before)
      afterIndex == IF after = {} THEN 0 ELSE SetMin(after)
  IN  IF beforeIndex = 0 THEN afterIndex
      ELSE IF afterIndex = 0 THEN beforeIndex
      ELSE IF timeIndex - beforeIndex < afterIndex - timeIndex THEN beforeIndex
      ELSE IF timeIndex - beforeIndex > afterIndex - timeIndex THEN afterIndex
      ELSE beforeIndex

powerAt(d, dateIndex, timeIndex) ==
  IF dateIndex \notin DateKeys(d) THEN Undefined
  ELSE IF <<dateIndex, timeIndex>> \in DOMAIN d THEN ExactFields(d, dateIndex, timeIndex)
  ELSE LET t == Nearest(d, dateIndex, timeIndex) IN
       IF <<dateIndex, t>> \in DOMAIN d THEN NeighbourFields(d, dateIndex, t)
       ELSE [batteryLevel |-> EmptyString, houseLoadTotal |-> EmptyString,
             gridExportTotal |-> EmptyString, gridImportTotal |-> EmptyString,
             pvOutputTotal |-> EmptyString]

----------------------------------------------------------------------------
(* getHistory(dateIndex) *)

SumNames == {"houseLoadTotal", "gridExportTotal", "gridImportTotal", "pvOutputTotal"}

\* the loop "for (let name in sum)" on one slot's record: each named field
\* becomes its difference from the running value
Deltas(rec, sum) ==
  [n \in DOMAIN rec \cup SumNames |->
     IF n \in SumNames THEN ToFixed2(Minus(PlusZero(Get(rec, n)), sum[n]))
     ELSE rec[n]]

NextSum(rec) == [n \in SumNames |-> PlusZero(Get(rec, n))]

\* the slots from the i-th on; the price and the time text attached to each
\* record take no part in the sums and are left out
RECURSIVE HistoryFrom(_, _, _, _, _)
HistoryFrom(d, dateIndex, i, sum, clock) ==
  IF i > NSlots \/ dateIndex + i * SlotMs > clock THEN <<>>
  ELSE LET rec == powerAt(d, dateIndex, dateIndex + i * SlotMs) IN
       <<Deltas(rec, sum)>> \o HistoryFrom(d, dateIndex, i + 1, NextSum(rec), clock)

\* the empty sequence stands for the code's false, for a day that is not stored
getHistory(d, dateIndex, clock) ==
  IF dateIndex \notin DateKeys(d) THEN <<>>
  ELSE HistoryFrom(d, dateIndex, 1, [n \in SumNames |-> Num(0)], clock)

----------------------------------------------------------------------------
(* cleardown() *)

DeleteDay(d, dateIndex) == [k \in {x \in DOMAIN d : x[1] # dateIndex} |-> d[k]]

noOfDaysToKeepExact == movingAveragePeriod

noOfDaysToKeep == movingAveragePeriod + 1

\* forEachChildNode({direction: 'reverse'}): the day keys from the greatest
\* down, count being the number of days visited so far
RECURSIVE ClearLoop(_, _, _)
ClearLoop(d, days, count) ==
  IF days = {} THEN d
  ELSE LET dateIndex == SetMax(days) IN
       ClearLoop(IF count + 1 > noOfDaysToKeep THEN DeleteDay(d, dateIndex) ELSE d,
                 days \ {dateIndex}, count + 1)

Cleardown ==
  /\ last' = [NoLast EXCEPT !.op = "cleardown", !.before = DateKeys(data)]
  /\ data' = ClearLoop(data, DateKeys(data), 0)
  /\ UNCHANGED <<now, movingAveragePeriod, ctlVars>>

----------------------------------------------------------------------------
(* restore(cleardown) *)

noOfDaysToStore == movingAveragePeriod + 1

\* the offsets restore() hands to update(), in order: today, and the days
\* before it only if today's update returned no error. resps[i] is the
\* answer to the update of offset 1 - i.
restoreAttempts(resps) ==
  IF updateResult(resps[1]) = "ok" THEN [i \in 1..noOfDaysToStore |-> 1 - i]
  ELSE <<0>>

\* the store after the first n updates of restore()
RECURSIVE restoreData(_, _, _)
restoreData(d, resps, n) ==
  IF n = 0 THEN d
  ELSE updateData(restoreData(d, resps, n - 1), 1 - n, resps[n])

\* what the vendor answers to each inverterDay call of one restore(); no
\* answer for the calls that are not made
RestoreResponses ==
  {resps \in [1..noOfDaysToStore ->
                UNION {DayResponses(AtMidnight(1 - i), FewOffsets, 1) : i \in 1..noOfDaysToStore}
                \cup {NoResponse}] :
     /\ resps[1] \in DayResponses(AtMidnight(0), FewOffsets, 1)
     /\ \A i \in 2..noOfDaysToStore :
          IF resps[1].kind = "ok" THEN resps[i] \in DayResponses(AtMidnight(1 - i), FewOffsets, 1)
          ELSE resps[i] = NoResponse}

Restore(cleardown, resps) ==
  /\ isConfigured
  /\ LET attempts == restoreAttempts(resps)
         start == IF cleardown THEN [k \in {} |-> 0] ELSE data
     IN  /\ data' = restoreData(start, resps, Len(attempts))
         /\ last' = [NoLast EXCEPT !.op = "restore", !.before = DateKeys(data),
                                   !.calls = attempts, !.attempts = attempts,
                                   !.rets = [i \in 1..Len(attempts) |-> updateResult(resps[i])],
                                   !.cleared = cleardown]
  /\ UNCHANGED <<now, movingAveragePeriod, ctlVars>>

----------------------------------------------------------------------------
(* The date utility: the fields of date.now() and date.at() *)

Pad2(n) == IF n < 10 THEN "0" \o ToString(n) ELSE ToString(n)

Minute(timeIndex) == ((timeIndex % DayMs) % (2 * SlotMs)) \div 60000

TimeText(timeIndex) == Pad2((timeIndex % DayMs) \div (2 * SlotMs)) \o ":" \o Pad2(Minute(timeIndex))

SlotTimeIndex(timeIndex) == (timeIndex \div SlotMs) * SlotMs

SlotEndTimeIndex(timeIndex) == SlotTimeIndex(timeIndex) + SlotMs

PreviousSlotTimeIndex(timeIndex) == SlotTimeIndex(timeIndex) - SlotMs

----------------------------------------------------------------------------
(* Configuration *)

DefaultCurrent == 50

chargeCurrent ==
  IF battery.chargeCurrent = <<>> THEN DefaultCurrent ELSE battery.chargeCurrent[1]

dischargeCurrent ==
  IF battery.dischargeCurrent = <<>> THEN DefaultCurrent ELSE battery.dischargeCurrent[1]

----------------------------------------------------------------------------
(* Firmware classification (setFirmwareVersion) *)

\* version strings are sequences of code points
V4B10 == <<52, 66, 49, 48>>
V4A99 == <<52, 65, 57, 57>>
V3A50 == <<51, 65, 53, 48>>
V4 == <<52>>
V4a99 == <<52, 97, 57, 57>>
V4b10 == <<52, 98, 49, 48>>

\* inverterSoftwareVersion of a record; <<>> is a record without one
Versions == {<<>>, V4B10, V4A99, V3A50, V4, V4a99, V4b10}

toUpperCase(str) == [i \in 1..Len(str) |-> IF str[i] \in 97..122 THEN str[i] - 32 ELSE str[i]]

\* the loop over res.data.page.records: the first truthy version, upper-cased
RECURSIVE FirstVersion(_)
FirstVersion(records) ==
  IF records = <<>> THEN <<>>
  ELSE IF Head(records) # <<>> THEN toUpperCase(Head(records))
  ELSE FirstVersion(Tail(records))

ClassifyFrom67(firmware) ==
  IF firmware # <<>> /\ firmware[1] = 52 /\ Len(firmware) >= 2 /\ firmware[2] > 66
    THEN "post-4B00" ELSE "pre-4B00"

\* startsWith('4') and charCodeAt(1) >= 66; charCodeAt(1) of a one-character
\* string is NaN, which is not >= 66
Classify(firmware) ==
  IF firmware # <<>> /\ firmware[1] = 52 /\ Len(firmware) >= 2 /\ firmware[2] >= 66
    THEN "post-4B00" ELSE "pre-4B00"

----------------------------------------------------------------------------
(* The settings string of the legacy dialect, as the list of its fields    *)
(* (split(',') and join(','))                                              *)

\* pcs[index] = value, index counted from 0; an assignment past the end
\* leaves holes, which join as empty fields
SetField(pcs, index, value) ==
  [j \in 1..(IF Len(pcs) > index THEN Len(pcs) ELSE index + 1) |->
     IF j = index + 1 THEN value ELSE IF j <= Len(pcs) THEN pcs[j] ELSE ""]

NoWindow == "00:00-00:00"

\* the settings the inverter starts with: 11 fields
InitialSettings ==
  <<"40", "35", "01:00-04:00", "17:00-19:00", "10", "15", "05:00-06:00", "20", "45",
    "21:00-22:00", "23:00-23:30">>

\* the inverter at the start: the settings string, of which the fields 0 to
\* 3 are the charge current, the discharge current, the charge window and
\* the discharge window, and the two state-of-charge targets
InitialInverter == [settings |-> InitialSettings, chargeSoc |-> "80", dischargeSoc |-> "20"]

\* the windows asked of the bounded operations
Windows == {<<"02:00", "05:00">>}

Window(fromTimeText, toTimeText) == fromTimeText \o "-" \o toTimeText

ClearOthersNine(pcs) == SetField(SetField(pcs, 6, NoWindow), 9, NoWindow)

ClearOthers(pcs) == SetField(SetField(pcs, 6, NoWindow), 10, NoWindow)

chargeTimeString(currentSetting, fromTimeText, toTimeText) ==
  ClearOthers(SetField(SetField(SetField(SetField(currentSetting,
    0, ToString(chargeCurrent)), 1, "0"), 2, Window(fromTimeText, toTimeText)), 3, NoWindow))

dischargeTimeString(currentSetting, fromTimeText, toTimeText) ==
  ClearOthers(SetField(SetField(SetField(SetField(currentSetting,
    0, "0"), 1, ToString(dischargeCurrent)), 2, NoWindow), 3, Window(fromTimeText, toTimeText)))

gridOnlyTimeStringKeepCharge(currentSetting, fromTimeText, toTimeText) ==
  ClearOthers(SetField(SetField(SetField(currentSetting,
    0, "0"), 1, "0"), 3, Window(fromTimeText, toTimeText)))

gridOnlyTimeString(currentSetting, fromTimeText, toTimeText) ==
  ClearOthers(SetField(SetField(SetField(SetField(currentSetting,
    0, "0"), 1, "0"), 2, NoWindow), 3, Window(fromTimeText, toTimeText)))

resetTimeString(currentSetting) ==
  ClearOthers(SetField(SetField(SetField(SetField(currentSetting,
    0, "0"), 1, "0"), 2, NoWindow), 3, NoWindow))

----------------------------------------------------------------------------
(* dataNow, batteryLevelNow and the charge history *)

\* batteryLevelNow: <<level>>, or <<>> for undefined. The last record of
\* yesterday is looked at in the first slot of the day only.
batteryLevelNow ==
  LET dateIndex == DateIndexOf(now)
      before == {t \in TimeKeys(data, dateIndex) : t < now}
      yesterday == TimeKeys(data, dateIndex - DayMs)
  IN  IF <<dateIndex, now>> \in DOMAIN data THEN <<data[<<dateIndex, now>>].batteryLevel>>
      ELSE IF before # {} THEN <<data[<<dateIndex, SetMax(before)>>].batteryLevel>>
      ELSE IF TimeText(SlotTimeIndex(now)) = "00:00" /\ yesterday # {}
        THEN <<data[<<dateIndex - DayMs, SetMax(yesterday)>>].batteryLevel>>
      ELSE <<>>

\* if (levelNow): neither undefined nor 0
Truthy(option) == option # <<>> /\ option[1] # 0

startNewChargeHistoryRecord(history) ==
  IF Truthy(batteryLevelNow)
    THEN [k \in DOMAIN history
                 \cup {<<SlotTimeIndex(now), "start">>, <<SlotTimeIndex(now), "startMinute">>} |->
            IF k = <<SlotTimeIndex(now), "start">> THEN batteryLevelNow[1]
            ELSE IF k = <<SlotTimeIndex(now), "startMinute">> THEN Minute(now)
            ELSE history[k]]
    ELSE history

endChargeHistoryRecord(history) ==
  IF Truthy(batteryLevelNow)
       /\ \E k \in DOMAIN history : k[1] = PreviousSlotTimeIndex(now)
    THEN [k \in DOMAIN history \cup {<<PreviousSlotTimeIndex(now), "end">>} |->
            IF k = <<PreviousSlotTimeIndex(now), "end">> THEN batteryLevelNow[1]
            ELSE history[k]]
    ELSE history

\* endChargeHistoryRecord() is called by no method of the class: it is left
\* to the class's user
EndChargeHistory ==
  /\ chargeHistory' = endChargeHistoryRecord(chargeHistory)
  /\ UNCHANGED <<now, storeVars, config, firmwareVersion, flags, battery, inverter,
                 dischargeControlFlag, proc>>

----------------------------------------------------------------------------
(* The control operations.  An invocation stops at each await of a remote  *)
(* call; the vendor's answer resumes it.                                   *)

NoResult == [kind |-> "none", text |-> ""]

Status(text) == [kind |-> "status", text |-> text]

Error(text) == [kind |-> "error", text |-> text]

\* an exception leaves the operation (a rejected promise)
Thrown(text) == [kind |-> "thrown", text |-> text]

Idle ==
  [pc |-> "idle", op |-> "none", override |-> FALSE, from |-> "", to |-> "",
   records |-> <<>>, classified |-> FALSE, msg |-> <<>>, trace |-> <<>>, failed |-> FALSE,
   read |-> "none", ret |-> NoResult]

\* one remote call (controlAPI, atReadAPI, setFirmwareVersion)
Call(url, cid, value, fields) ==
  [kind |-> "call", url |-> url, cid |-> cid, value |-> value, fields |-> fields]

UnsetFlag == [kind |-> "unsetDischargeControlFlag", url |-> "", cid |-> 0, value |-> "", fields |-> <<>>]

HistoryStart == [kind |-> "chargeHistory", url |-> "", cid |-> 0, value |-> "", fields |-> <<>>]

Issue(pr, pc, call) == [pr EXCEPT !.pc = pc, !.trace = Append(@, call)]

\* a remote call of the invocation has yielded an error: {error: ...} from
\* request(), or a response its caller finds wanting
Fail(pr) == [pr EXCEPT !.failed = TRUE]

Return(pr, result) == [pr EXCEPT !.pc = "done", !.ret = result]

LastCall(pr) == pr.trace[Len(pr.trace)]

\* the records of the inverterList response are a local of setFirmwareVersion():
\* they are gone once the operation goes on
Forget(pr) == [pr EXCEPT !.records = <<>>, !.classified = FALSE]

ChargeOps == {"charge", "chargeBetween", "resetNow", "reset"}

SlotOps == {"charge", "discharge", "gridOnly"}

BetweenOps == {"chargeBetween", "dischargeBetween", "gridOnlyBetween"}

ControlOps == SlotOps \cup BetweenOps \cup {"resetNow", "reset", "syncClock"}

\* current || default
OrDefault(current, default) == IF Truthy(current) THEN current[1] ELSE default

\* the current argument the operation hands to post4B00Charge / post4B00Discharge
CurrentArgument(op) == IF op \in {"gridOnly", "gridOnlyBetween", "resetNow", "reset"} THEN <<0>> ELSE <<>>

ModernCurrent(op) ==
  IF op \in ChargeOps THEN OrDefault(CurrentArgument(op), chargeCurrent)
  ELSE OrDefault(CurrentArgument(op), dischargeCurrent)

ModernCallWindowSecond(pr, step) ==
  IF pr.op \in ChargeOps
    THEN CASE step = 1 -> Call("/v2/api/control", 5948, ToString(ModernCurrent(pr.op)), <<>>)
           [] step = 2 -> Call("/v2/api/control", 5946, Window(pr.from, pr.to), <<>>)
           [] OTHER -> Call("/v2/api/control", 5928, "100", <<>>)
    ELSE CASE step = 1 -> Call("/v2/api/control", 5967, ToString(ModernCurrent(pr.op)), <<>>)
           [] step = 2 -> Call("/v2/api/control", 5964, Window(pr.from, pr.to), <<>>)
           [] OTHER -> Call("/v2/api/control", 5965, "0", <<>>)

\* post4B00Charge and post4B00Discharge: the three writes, in order
ModernCall(pr, step) ==
  IF pr.op \in ChargeOps
    THEN CASE step = 1 -> Call("/v2/api/control", 5948, ToString(ModernCurrent(pr.op)), <<>>)
           [] step = 2 -> Call("/v2/api/control", 5928, "100", <<>>)
           [] OTHER -> Call("/v2/api/control", 5946, Window(pr.from, pr.to), <<>>)
    ELSE CASE step = 1 -> Call("/v2/api/control", 5967, ToString(ModernCurrent(pr.op)), <<>>)
           [] step = 2 -> Call("/v2/api/control", 5965, "0", <<>>)
           [] OTHER -> Call("/v2/api/control", 5964, Window(pr.from, pr.to), <<>>)

ModernFailure(pr, step) ==
  IF pr.op \in ChargeOps
    THEN CASE step = 1 -> "Solis charge current setting 5948 API failed"
           [] step = 2 -> "Solis charge SOC setting 5928 API failed"
           [] OTHER -> "Solis charge setting 5946 API failed"
    ELSE CASE step = 1 -> "Solis discharge current setting 5967 API failed"
           [] step = 2 -> "Solis discharge SOC setting 5965 API failed"
           [] OTHER -> "Solis discharge setting 5964 API failed"

ModernSuccess(pr) ==
  IF pr.op \in ChargeOps THEN "Inverter successfully set to charge"
  ELSE "Inverter successfully set to discharge"

LegacySuccess(op) ==
  CASE op \in {"charge", "chargeBetween"} -> "Inverter set to charge"
    [] op \in {"discharge", "dischargeBetween"} -> "Inverter set to discharge"
    [] op \in {"gridOnly", "gridOnlyBetween"} -> "Inverter set to only use grid power"
    [] OTHER -> "Inverter reset successfully"

\* the string the legacy branch of the operation pushes, from the msg read
LegacyString(pr, msg) ==
  CASE pr.op \in {"charge", "chargeBetween"} -> chargeTimeString(msg, pr.from, pr.to)
    [] pr.op \in {"discharge", "dischargeBetween"} -> dischargeTimeString(msg, pr.from, pr.to)
    [] pr.op \in {"gridOnly", "gridOnlyBetween"} -> gridOnlyTimeString(msg, pr.from, pr.to)
    [] OTHER -> resetTimeString(msg)

AfterFirmwareUnlessLegacy(pr, version) ==
  IF version # "pre-4B00"
    THEN IF pr.op = "dischargeBetween" THEN Return(pr, Thrown("ReferenceError: fromD is not defined"))
         ELSE Issue(pr, "modern1", ModernCall(pr, 1))
  ELSE Issue(pr, "read", Call("/v2/api/atRead", 4643, "", <<>>))

\* what follows "let firmwareVersion = await this.getFirmwareVersion()".
\* inverterDischargeBetween's post-4B00 branch reads fromD and toD, which it
\* never declares: a ReferenceError.
AfterFirmware(pr, version) ==
  IF version = "post-4B00"
    THEN IF pr.op = "dischargeBetween" THEN Return(pr, Thrown("ReferenceError: fromD is not defined"))
         ELSE Issue(pr, "modern1", ModernCall(pr, 1))
  ELSE Issue(pr, "read", Call("/v2/api/atRead", 4643, "", <<>>))

GetFirmwareUncached(pr) == Issue(pr, "detail", Call("/v1/api/inverterDetail", 0, "", <<>>))

\* getFirmwareVersion(): the cached value, else setFirmwareVersion()'s first call
GetFirmware(pr) ==
  IF firmwareVersion # "" THEN AfterFirmware(pr, firmwareVersion)
  ELSE Issue(pr, "detail", Call("/v1/api/inverterDetail", 0, "", <<>>))

GateOpenAlways(op, override) == TRUE

\* the enable flag the operation consults, TRUE where it consults none
GateOpen(op, override) ==
  CASE op \in {"charge", "gridOnly", "resetNow"} -> override \/ flags.chargingEnabled
    [] op = "discharge" -> override \/ flags.dischargingEnabled
    [] op = "reset" -> flags.chargingEnabled
    [] OTHER -> TRUE

GateClosedResult(op) ==
  CASE op = "charge" -> Status("Inverter Charge task ignored")
    [] op = "discharge" -> Status("Inverter Discharge task ignored")
    [] op = "gridOnly" -> Status("Inverter Grid Only task ignored")
    [] OTHER -> Error("Charging logic is currently disabled, so no reset command sent")

Begin(op, override, from, to) ==
  [Idle EXCEPT !.op = op, !.override = override, !.from = from, !.to = to]

resetDueHourly == Minute(now) = 0

\* inverterReset(): d.timeText === '00:00'
resetDue == TimeText(now) = "00:00"

\* the operation up to its first await, or to its return if it reaches none
Start(p, op, override, window) ==
  /\ proc[p].pc \in {"idle", "done"}
  /\ LET slot == Begin(op, override, TimeText(now), TimeText(SlotEndTimeIndex(now)))
         between == Begin(op, FALSE, window[1], window[2])
         reset == Begin(op, override, "00:00", "00:00")
     IN
     CASE op = "syncClock" ->
            /\ proc' = [proc EXCEPT ![p] =
                 IF flags.keepInverterTimeSynchronised
                   THEN Issue(Begin(op, FALSE, "", ""), "time",
                              Call("/v2/api/control", 56, TimeText(now), <<>>))
                   ELSE Return(Begin(op, FALSE, "", ""),
                               Status("Agility is configured not to update the Inverter Time"))]
            /\ UNCHANGED chargeHistory
       [] op = "reset" /\ ~resetDue ->
            /\ proc' = [proc EXCEPT ![p] =
                 Return(Begin(op, FALSE, "", ""), Status("Inverter reset only done at midnight"))]
            /\ UNCHANGED chargeHistory
       [] op \in {"reset", "resetNow"} /\ (op = "reset" => resetDue) ->
            /\ proc' = [proc EXCEPT ![p] =
                 IF GateOpen(op, override) THEN GetFirmware(reset)
                 ELSE Return(reset, GateClosedResult(op))]
            /\ UNCHANGED chargeHistory
       [] op \in BetweenOps ->
            /\ proc' = [proc EXCEPT ![p] = GetFirmware(between)]
            /\ UNCHANGED chargeHistory
       [] op = "charge" ->
            IF GateOpen(op, override)
              THEN /\ chargeHistory' = startNewChargeHistoryRecord(chargeHistory)
                   /\ proc' = [proc EXCEPT ![p] =
                        GetFirmware([slot EXCEPT !.trace =
                          IF Truthy(batteryLevelNow) THEN <<HistoryStart>> ELSE <<>>])]
              ELSE /\ proc' = [proc EXCEPT ![p] = Return(slot, GateClosedResult(op))]
                   /\ UNCHANGED chargeHistory
       [] OTHER ->
            /\ proc' = [proc EXCEPT ![p] =
                 IF GateOpen(op, override) THEN GetFirmware(slot)
                 ELSE Return(slot, GateClosedResult(op))]
            /\ UNCHANGED chargeHistory
  /\ UNCHANGED <<now, storeVars, config, firmwareVersion, flags, battery, inverter, dischargeControlFlag>>

\* what request() and the vendor can make of a call
Kinds == {"ok", "status", "exception", "nodata"}

\* ... and of atRead: data a string, no msg, no yuanzhi, yuanzhi 'fail...' or 'error...'
ReadKinds == Kinds \cup {"datastring", "nomsg", "noyuanzhi", "fail", "error"}

RequestError(kind) ==
  IF kind = "status" THEN Error("solis.request returned status")
  ELSE Error("solis.request failed")

\* setFirmwareVersion() after inverterDetail: with a stationId the list is
\* asked for; without, getFirmwareVersion() yields 'Unknown'
DetailResponse(p, kind) ==
  /\ proc[p].pc = "detail"
  /\ proc' = [proc EXCEPT ![p] =
       IF kind = "ok" THEN Issue(@, "list", Call("/v1/api/inverterList", 0, "", <<>>))
       ELSE AfterFirmware(Fail(@), "Unknown")]
  /\ UNCHANGED <<now, storeVars, config, firmwareVersion, flags, battery, inverter,
                 dischargeControlFlag, chargeHistory>>

\* setFirmwareVersion() after inverterList
ListResponse(p, kind, records) ==
  /\ proc[p].pc = "list"
  /\ IF kind = "ok" /\ FirstVersion(records) # <<>>
       THEN /\ firmwareVersion' = Classify(FirstVersion(records))
            /\ proc' = [proc EXCEPT ![p] =
                 AfterFirmware([@ EXCEPT !.records = records, !.classified = TRUE],
                               Classify(FirstVersion(records)))]
       ELSE /\ proc' = [proc EXCEPT ![p] =
                 AfterFirmware(IF kind = "ok" THEN @ ELSE Fail(@), "Unknown")]
            /\ UNCHANGED firmwareVersion
  /\ UNCHANGED <<now, storeVars, config, flags, battery, inverter, dischargeControlFlag, chargeHistory>>

ReadFailure(kind) ==
  CASE kind \in {"status", "exception"} -> RequestError(kind)
    [] kind \in {"nodata", "datastring"} -> Error("solis.atRead API failed (1)")
    [] kind = "nomsg" -> Error("solis.atRead API failed (2)")
    [] kind = "noyuanzhi" -> Error("solis.atRead API failed (3)")
    [] kind = "fail" -> Error("solis.atRead API failed (4)")
    [] OTHER -> Error("solis.atRead API failed (5)")

\* atReadAPI() returns the response: none of its five checks fails
ReadSucceededUnlessError(kind) == kind \notin {"status", "exception"}

ReadSucceeded(kind) == kind = "ok"

\* the legacy branch after atReadAPI(); the shape of the vendor's answer is
\* kept in read
ReadResponse(p, kind) ==
  /\ proc[p].pc = "read"
  /\ proc' = [proc EXCEPT ![p] =
       IF ReadSucceeded(kind)
         THEN Issue([Forget(@) EXCEPT !.msg = inverter.settings, !.read = kind], "write",
                    Call("/v2/api/control", 4643, "", LegacyString(@, inverter.settings)))
         ELSE Return(Fail([Forget(@) EXCEPT !.read = kind]), ReadFailure(kind))]
  /\ UNCHANGED <<now, storeVars, config, firmwareVersion, flags, battery, inverter,
                 dischargeControlFlag, chargeHistory>>

\* only inverterDischarge, and only in its legacy branch, calls
\* battery.unsetDischargeControlFlag()
CallsFlag(op) == op = "discharge"

\* the legacy branch after chargeAPI() / dischargeAPI()
WriteResponse(p, kind) ==
  /\ proc[p].pc = "write"
  /\ IF kind = "ok"
       THEN /\ inverter' = [inverter EXCEPT !.settings = LastCall(proc[p]).fields]
            /\ dischargeControlFlag' = IF CallsFlag(proc[p].op) THEN FALSE ELSE dischargeControlFlag
            /\ proc' = [proc EXCEPT ![p] =
                 Return(IF CallsFlag(@.op) THEN [@ EXCEPT !.trace = Append(@, UnsetFlag)] ELSE @,
                        Status(LegacySuccess(@.op)))]
       ELSE /\ proc' = [proc EXCEPT ![p] =
                 Return(Fail(@), IF kind = "nodata"
                             THEN Error(IF @.op \in ChargeOps THEN "Solis charge API failed"
                                        ELSE "Solis discharge API failed")
                             ELSE RequestError(kind))]
            /\ UNCHANGED <<inverter, dischargeControlFlag>>
  /\ UNCHANGED <<now, storeVars, config, firmwareVersion, flags, battery, chargeHistory>>

\* what a write of the modern dialect that the vendor accepts sets in the
\* inverter: the charge current (5948), the charge state-of-charge target
\* (5928), the charge window (5946), the discharge current (5967), the
\* discharge state-of-charge target (5965), the discharge window (5964)
Written(inv, call) ==
  CASE call.cid = 5948 -> [inv EXCEPT !.settings = SetField(@, 0, call.value)]
    [] call.cid = 5928 -> [inv EXCEPT !.chargeSoc = call.value]
    [] call.cid = 5946 -> [inv EXCEPT !.settings = SetField(@, 2, call.value)]
    [] call.cid = 5967 -> [inv EXCEPT !.settings = SetField(@, 1, call.value)]
    [] call.cid = 5965 -> [inv EXCEPT !.dischargeSoc = call.value]
    [] call.cid = 5964 -> [inv EXCEPT !.settings = SetField(@, 3, call.value)]
    [] OTHER -> inv

\* post4B00Charge() / post4B00Discharge() after the step-th write
ModernResponse(p, step, kind) ==
  /\ proc[p].pc = (CASE step = 1 -> "modern1" [] step = 2 -> "modern2" [] OTHER -> "modern3")
  /\ IF kind = "ok"
       THEN /\ inverter' = Written(inverter, LastCall(proc[p]))
            /\ proc' = [proc EXCEPT ![p] =
                 CASE step = 1 -> Issue(Forget(@), "modern2", ModernCall(@, 2))
                   [] step = 2 -> Issue(@, "modern3", ModernCall(@, 3))
                   [] OTHER -> Return(@, Status(ModernSuccess(@)))]
       ELSE /\ proc' = [proc EXCEPT ![p] =
                 Return(Fail(Forget(@)), IF kind = "nodata" THEN Error(ModernFailure(@, step))
                                   ELSE RequestError(kind))]
            /\ UNCHANGED inverter
  /\ UNCHANGED <<now, storeVars, config, firmwareVersion, flags, battery,
                 dischargeControlFlag, chargeHistory>>

\* updateInverterTime() after setTimeNowAPI(): only resp.error is looked at
TimeResponse(p, kind) ==
  /\ proc[p].pc = "time"
  /\ proc' = [proc EXCEPT ![p] =
       Return(IF kind \in {"status", "exception"} THEN Fail(@) ELSE @,
              IF kind \in {"status", "exception"} THEN RequestError(kind)
                 ELSE Status("Inverter time updated successfully"))]
  /\ UNCHANGED <<now, storeVars, config, firmwareVersion, flags, battery, inverter,
                 dischargeControlFlag, chargeHistory>>

----------------------------------------------------------------------------
(* Signing: md5, stringToSign, signature, and the headers api() builds.     *)
(* The digests are kept as the terms they are computed from.                *)

\* new Date().toUTCString(): the clock to the second
UTCString(timeIndex) == "T+" \o ToString(timeIndex \div 1000) \o "s GMT"

\* createHash("md5").update(data).digest('base64')
md5(text) == "md5(" \o text \o ")"

\* JSON.stringify(body) for an object, the body itself for a string
BodyText(body) == IF body.type = "object" THEN "{" \o body.text \o "}" ELSE body.text

\* x || default
OrText(x, default) == IF x = "" THEN default ELSE x

lf == "\n"

stringToSignUrlFirst(body, url, methodArg, contentTypeArg, dateArg) ==
  LET method == OrText(methodArg, "POST")
      date == OrText(dateArg, UTCString(now))
      contentType == OrText(contentTypeArg, "application/json;charset=UTF-8")
  IN  [stringToSign |-> url \o lf \o md5(BodyText(body)) \o lf \o contentType \o lf
                          \o date \o lf \o method,
       md5 |-> md5(BodyText(body))]

stringToSign(body, url, methodArg, contentTypeArg, dateArg) ==
  LET method == OrText(methodArg, "POST")
      date == OrText(dateArg, UTCString(now))
      contentType == OrText(contentTypeArg, "application/json;charset=UTF-8")
  IN  [stringToSign |-> method \o lf \o md5(BodyText(body)) \o lf \o contentType \o lf
                          \o date \o lf \o url,
       md5 |-> md5(BodyText(body))]

\* createHmac('sha1', secretKey).update(stringToSign).digest('base64')
signature(text, secretKey) == "hmac-sha1(" \o secretKey \o "," \o text \o ")"

\* this.key and this.secret: a value that is not set reads as the empty string
KeyValue == IF config.exists /\ config.key THEN "key-1" ELSE ""

SecretValue == IF config.exists /\ config.secret THEN "secret-1" ELSE ""

\* the arguments api() hands to request()
apiRequest(url, payload, methodArg) ==
  LET method == OrText(methodArg, "POST")
      date == UTCString(now)
      sts == stringToSign(payload, url, method, "application/json", date)
  IN  [url |-> url, method |-> method, body |-> payload, date |-> date,
       auth |-> "API " \o KeyValue \o ":" \o signature(sts.stringToSign, SecretValue),
       md5 |-> sts.md5]

\* stringToSign() and signature() called with arguments of the caller's
Sign(args) ==
  /\ last' = [op |-> "sign", args |-> args,
              sts |-> stringToSign(args.body, args.url, args.method, args.contentType, args.date),
              signature |-> signature(stringToSign(args.body, args.url, args.method,
                                                   args.contentType, args.date).stringToSign,
                                      args.secret)]
  /\ UNCHANGED <<now, data, movingAveragePeriod, ctlVars>>

\* api() up to its call of request()
Api(url, payload, methodArg) ==
  /\ last' = [op |-> "api", args |-> [url |-> url, body |-> payload, method |-> methodArg],
              at |-> now, request |-> apiRequest(url, payload, methodArg)]
  /\ UNCHANGED <<now, data, movingAveragePeriod, ctlVars>>

----------------------------------------------------------------------------
(* The date utility: times of day *)

\* date.at(timeIndex).timeText, as hours and minutes: the seconds are dropped
TimeOfDay(timeIndex) == <<(timeIndex % DayMs) \div (2 * SlotMs), Minute(timeIndex)>>

\* date.atTime(timeText, dateIndex).timeIndex
atTime(timeText, dateIndex) == dateIndex + timeText[1] * 2 * SlotMs + timeText[2] * 60000

----------------------------------------------------------------------------
(* getDataAt, averagePowerBetween, averagePowerBetweenTimeIndices.  An      *)
(* average is the quotient of a total by a day count, kept as that pair.   *)

Quotient(total, count) == [num |-> total, den |-> count]

\* a + b
QuotientPlus(a, b) == [num |-> a.num * b.den + b.num * a.den, den |-> a.den * b.den]

\* a === b
QuotientEq(a, b) == a.num * b.den = b.num * a.den

Power(load, pv) == [kind |-> "power", load |-> load, pv |-> pv]

\* {load: 0, pv: 0}
NoPower == Power(Quotient(0, 1), Quotient(0, 1))

\* getDataAt(timeText, offset): <<document>>, or <<>> for undefined.  The day
\* is counted from today.
getDataAt(d, timeText, offset) ==
  LET dateIndex == AtMidnight(offset)
      timeIndex == atTime(timeText, dateIndex)
      after == {t \in TimeKeys(d, dateIndex) : t > timeIndex}
      before == {t \in TimeKeys(d, dateIndex) : t < timeIndex}
  IN  IF <<dateIndex, timeIndex>> \in DOMAIN d THEN <<d[<<dateIndex, timeIndex>>]>>
      ELSE IF after # {} THEN <<d[<<dateIndex, SetMin(after)>>]>>
      ELSE IF before # {} THEN <<d[<<dateIndex, SetMax(before)>>]>>
      ELSE <<>>

\* the stored days from the one before the last stored day backwards
HistoryDays(d) == DateKeys(d) \ {SetMax(DateKeys(d))}

\* the loop of averagePowerBetween over the first n history days: the day of
\* the i-th pass is today - i
RECURSIVE TotalBetween(_, _, _, _, _)
TotalBetween(d, from, to, name, n) ==
  IF n = 0 THEN 0
  ELSE TotalBetween(d, from, to, name, n - 1)
       + (getDataAt(d, to, 0 - n)[1][name] - getDataAt(d, from, 0 - n)[1][name])

\* from || '00:00', to || '23:59'
OrTime(timeText, default) == IF timeText = <<>> THEN default ELSE timeText

averagePowerBetween(d, fromArg, toArg) ==
  LET from == OrTime(fromArg, <<0, 0>>)
      to == OrTime(toArg, <<23, 59>>)
  IN  IF DOMAIN d = {} THEN NoPower
      ELSE IF HistoryDays(d) = {} THEN NoPower
      ELSE LET count == Cardinality(HistoryDays(d)) IN
           IF \E i \in 1..count : getDataAt(d, from, 0 - i) = <<>> \/ getDataAt(d, to, 0 - i) = <<>>
             THEN Thrown("TypeError: Cannot read properties of undefined")
           ELSE Power(Quotient(TotalBetween(d, from, to, "houseLoadTotal", count), count),
                      Quotient(TotalBetween(d, from, to, "pvOutputTotal", count), count))

\* {load: power1.load + power2.load, pv: power1.pv + power2.pv}
PowerPlus(power1, power2) ==
  IF power1.kind = "thrown" THEN power1
  ELSE IF power2.kind = "thrown" THEN power2
  ELSE Power(QuotientPlus(power1.load, power2.load), QuotientPlus(power1.pv, power2.pv))

averagePowerBetweenTimeIndicesUnsplit(d, fromTimeIndex, toTimeIndex) ==
  averagePowerBetween(d, TimeOfDay(fromTimeIndex), TimeOfDay(toTimeIndex))

averagePowerBetweenTimeIndices(d, fromTimeIndex, toTimeIndex) ==
  IF DateIndexOf(fromTimeIndex) = DateIndexOf(toTimeIndex)
    THEN averagePowerBetween(d, TimeOfDay(fromTimeIndex), TimeOfDay(toTimeIndex))
  ELSE PowerPlus(averagePowerBetween(d, TimeOfDay(fromTimeIndex), <<23, 30>>),
                 averagePowerBetween(d, <<0, 0>>, TimeOfDay(toTimeIndex)))

----------------------------------------------------------------------------
(* profile *)

\* a + b on numbers
Plus(a, b) == IF IsNum(a) /\ IsNum(b) THEN Num(a.v + b.v) ELSE NaN

\* +(x / count).toFixed(2), x not negative
DivFixed2(x, count) ==
  IF IsNum(x) THEN Num(((2 * x.v + 10 * count) \div (20 * count)) * 10) ELSE NaN

\* if (value < sum) value = sum
ClampUnclamped(value, sum) == value

Clamp(value, sum) == IF IsNum(value) /\ IsNum(sum) /\ value.v < sum.v THEN sum ELSE value

\* one day's slots from the i-th on: the difference of each boundary's
\* houseLoadTotal from the running value
RECURSIVE SlotsFrom(_, _, _, _)
SlotsFrom(d, dateIndex, i, sum) ==
  IF i > NSlots THEN <<>>
  ELSE LET value == Clamp(PlusZero(powerAt(d, dateIndex, dateIndex + i * SlotMs).houseLoadTotal), sum)
       IN  <<ToFixed2(Minus(value, sum))>> \o SlotsFrom(d, dateIndex, i + 1, value)

\* totals[i] += slots[i]
AddSlots(totals, slots) == [i \in 1..NSlots |-> Plus(totals[i], slots[i])]

\* ... over the days, the latest first
RECURSIVE TotalsOver(_, _)
TotalsOver(d, days) ==
  IF days = {} THEN [i \in 1..NSlots |-> Num(0)]
  ELSE AddSlots(TotalsOver(d, days \ {SetMax(days)}), SlotsFrom(d, SetMax(days), 1, Num(0)))

\* totals[i] = +(totals[i] / count).toFixed(2)
DivideSlots(totals, count) == [i \in 1..NSlots |-> DivFixed2(totals[i], count)]

profile(d) ==
  IF DOMAIN d = {} \/ HistoryDays(d) = {}
    THEN Error("No historical Solis Data is available yet")
  ELSE [kind |-> "profile",
        totals |-> DivideSlots(TotalsOver(d, HistoryDays(d)), Cardinality(HistoryDays(d)))]

----------------------------------------------------------------------------
(* The clock *)

\* the times of day the clock stops at: midnight, 00:15, 01:00, 02:30
NowOffsets == {0, QuarterMs, 2 * SlotMs, 5 * SlotMs}

Tick(points) ==
  /\ \E t \in points : t > now
  /\ now' = SetMin({t \in points : t > now})
  /\ UNCHANGED <<storeVars, ctlVars>>

----------------------------------------------------------------------------
(* Specifications *)

\* the store empty, no operation requested; the credentials are left open
InitStore ==
  /\ now = DayMs
  /\ data = [k \in {} |-> 0]
  /\ movingAveragePeriod \in 1..MaxPeriod
  /\ last = NoLast
  /\ firmwareVersion = ""
  /\ flags = [chargingEnabled |-> TRUE, dischargingEnabled |-> TRUE,
              keepInverterTimeSynchronised |-> FALSE]
  /\ battery = [chargeCurrent |-> <<>>, dischargeCurrent |-> <<>>]
  /\ inverter = InitialInverter
  /\ dischargeControlFlag = FALSE
  /\ chargeHistory = <<>>
  /\ proc = <<>>

Init == InitStore /\ config = Complete

\* One day in detail: update() of today under every response, the clock
\* within day 1
UpdateToday ==
  \E resp \in DayResponses(AtMidnight(0), TsOffsets, MaxBatch) \cup {NoResponse} : Update(0, resp)

TickToday == Tick({DayMs + off : off \in NowOffsets})

Next == UpdateToday \/ TickToday

Spec == Init /\ [][Next]_vars

\* Several days: update() of today and of the days before, cleardown(), the
\* clock over the days 1..MaxDay
UpdateDay ==
  \E offset \in (1 - MaxDay)..0 :
    /\ AtMidnight(offset) >= DayMs
    /\ \E resp \in DayResponses(AtMidnight(offset), FewOffsets, 1) \cup {NoResponse} :
         Update(offset, resp)

TickDays == Tick({d * DayMs + off : d \in 1..MaxDay, off \in {0, 2 * SlotMs}})

NextDays == UpdateDay \/ Cleardown \/ TickDays

SpecDays == Init /\ [][NextDays]_vars

\* update() of today under complete and incomplete credentials
InitCredentials == InitStore /\ config \in Configs

UpdateFew ==
  \E resp \in DayResponses(AtMidnight(0), FewOffsets, MaxBatch) \cup {NoResponse} : Update(0, resp)

NextCredentials == UpdateFew \/ TickToday

SpecCredentials == InitCredentials /\ [][NextCredentials]_vars

\* the store rebuilt, on one day and the next
RestoreAny == \E cleardown \in BOOLEAN : \E resps \in RestoreResponses : Restore(cleardown, resps)

TickRestore == Tick({DayMs, 2 * DayMs})

NextRestore == RestoreAny \/ TickRestore

SpecRestore == Init /\ [][NextRestore]_vars

\* The control operations, one invocation at a time, under every answer of
\* the vendor, for every setting of the enable flags; a discharge has been
\* requested and the store holds one sample of today, of 01:00
InitDevice ==
  /\ now = DayMs
  /\ movingAveragePeriod = 1
  /\ last = NoLast
  /\ firmwareVersion = ""
  /\ battery = [chargeCurrent |-> <<>>, dischargeCurrent |-> <<25>>]
  /\ inverter = InitialInverter
  /\ dischargeControlFlag = TRUE
  /\ chargeHistory = <<>>

\* one invocation at a time
InitInverter == InitDevice /\ proc = [p \in 1..1 |-> Idle]

InitControl ==
  /\ InitInverter
  /\ data \in {StoreAll(<<>>, DayMs, <<Sample(v, DayMs + 2 * SlotMs)>>) :
                   v \in {x \in Variants : x.batteryCapacitySoc = 40}}
  /\ config = Complete
  /\ flags \in {[chargingEnabled |-> c, dischargingEnabled |-> d,
                  keepInverterTimeSynchronised |-> d] : c, d \in BOOLEAN}

InvokeAny(ops) ==
  \E p \in DOMAIN proc : \E op \in ops : \E window \in Windows :
    \E override \in (IF op \in SlotOps \cup {"resetNow"} THEN BOOLEAN ELSE {FALSE}) :
      Start(p, op, override, window)

Invoke == InvokeAny(ControlOps)

Firmware ==
  \E p \in DOMAIN proc :
    \/ \E kind \in Kinds : DetailResponse(p, kind)
    \/ \E records \in SeqsUpTo({<<>>, V4B10, V3A50}, 1) : ListResponse(p, "ok", records)
    \/ \E kind \in Kinds \ {"ok"} : ListResponse(p, kind, <<>>)

Legacy ==
  \E p \in DOMAIN proc :
    \/ \E kind \in ReadKinds : ReadResponse(p, kind)
    \/ \E kind \in Kinds : WriteResponse(p, kind)

Modern == \E p \in DOMAIN proc : \E step \in 1..3 : \E kind \in Kinds : ModernResponse(p, step, kind)

SyncClock == \E p \in DOMAIN proc : \E kind \in Kinds : TimeResponse(p, kind)

\* the clock stops at midnight and at 01:15
TickControl == Tick({DayMs, DayMs + 5 * QuarterMs})

NextControl == Invoke \/ Firmware \/ Legacy \/ Modern \/ SyncClock \/ TickControl

SpecControl == InitControl /\ [][NextControl]_vars

\* The firmware classification: chargeBetween() with an empty cache, under
\* every inverterList response of up to MaxRecords records
InitFirmware ==
  /\ InitControl
  /\ flags.chargingEnabled /\ flags.dischargingEnabled

InvokeBetween ==
  \E p \in DOMAIN proc : \E window \in Windows : Start(p, "chargeBetween", FALSE, window)

FirmwareList ==
  \E p \in DOMAIN proc :
    \/ \E kind \in Kinds : DetailResponse(p, kind)
    \/ \E records \in SeqsUpTo(Versions, MaxRecords) : ListResponse(p, "ok", records)
    \/ \E kind \in Kinds \ {"ok"} : ListResponse(p, kind, <<>>)

NextFirmware == InvokeBetween \/ FirmwareList \/ Legacy \/ Modern

SpecFirmware == InitFirmware /\ [][NextFirmware]_vars

AllEnabled ==
  [chargingEnabled |-> TRUE, dischargingEnabled |-> TRUE, keepInverterTimeSynchronised |-> FALSE]

\* a sample with load, of the given battery level
LevelSample(level, ts) ==
  Sample([(CHOOSE v \in Variants : v.batteryCapacitySoc = 40) EXCEPT
            !.batteryCapacitySoc = level], ts)

\* The charge history: inverterCharge() in one slot and the next, the store
\* empty or holding one sample of midnight with the battery at 0% or 40%
InitHistory ==
  /\ InitInverter
  /\ data \in {<<>>} \cup {StoreAll(<<>>, DayMs, <<LevelSample(level, DayMs)>>) : level \in {0, 40}}
  /\ config = Complete
  /\ flags = AllEnabled

InvokeCharge == InvokeAny({"charge"})

\* the clock stops at midnight, 00:15 and 00:45
TickHistory == Tick({DayMs, DayMs + QuarterMs, DayMs + 3 * QuarterMs})

NextHistory == InvokeCharge \/ EndChargeHistory \/ Firmware \/ Legacy \/ Modern \/ TickHistory

SpecHistory == InitHistory /\ [][NextHistory]_vars

\* The control operations at midnight under incomplete credentials, which
\* none of them looks at: api() signs with whatever key and secret it reads
InitUnconfigured ==
  /\ InitInverter
  /\ data = <<>>
  /\ config \in Configs \ {Complete}
  /\ flags = AllEnabled

InvokeControl == InvokeAny(ControlOps \ {"syncClock"})

NextUnconfigured == InvokeControl \/ Firmware \/ Legacy \/ Modern

SpecUnconfigured == InitUnconfigured /\ [][NextUnconfigured]_vars

\* Two invocations that may overlap: nothing in the class keeps a second
\* operation from starting while the first awaits a remote call
InitOverlap ==
  /\ InitDevice
  /\ proc = [p \in 1..2 |-> Idle]
  /\ data = <<>>
  /\ config = Complete
  /\ flags = AllEnabled

InvokeOverlap == InvokeAny({"chargeBetween", "gridOnlyBetween"})

NextOverlap == InvokeOverlap \/ Firmware \/ Legacy \/ Modern

SpecOverlap == InitOverlap /\ [][NextOverlap]_vars

\* Two invocations that may overlap under the legacy dialect, the firmware
\* classified as pre-4B00 by an earlier run
InitInterleave ==
  /\ now = DayMs
  /\ movingAveragePeriod = 1
  /\ last = NoLast
  /\ firmwareVersion = "pre-4B00"
  /\ battery = [chargeCurrent |-> <<>>, dischargeCurrent |-> <<25>>]
  /\ inverter = InitialInverter
  /\ dischargeControlFlag = TRUE
  /\ chargeHistory = <<>>
  /\ proc = [p \in 1..2 |-> Idle]
  /\ data = <<>>
  /\ config = Complete
  /\ flags = AllEnabled

InvokeInterleave == InvokeAny({"charge", "dischargeBetween", "gridOnlyBetween", "resetNow"})

NextInterleave == InvokeInterleave \/ Legacy

SpecInterleave == InitInterleave /\ [][NextInterleave]_vars

\* The two dialects side by side: the firmware already classified, as
\* pre-4B00 or as post-4B00, and charge, discharge and grid-only operations
\* one after another
InitDialect ==
  /\ now = DayMs
  /\ movingAveragePeriod = 1
  /\ last = NoLast
  /\ firmwareVersion \in {"pre-4B00", "post-4B00"}
  /\ battery = [chargeCurrent |-> <<>>, dischargeCurrent |-> <<25>>]
  /\ inverter = InitialInverter
  /\ dischargeControlFlag = TRUE
  /\ chargeHistory = <<>>
  /\ proc = [p \in 1..1 |-> Idle]
  /\ data = <<>>
  /\ config = Complete
  /\ flags = AllEnabled

InvokeDialect == InvokeAny(SlotOps \cup BetweenOps)

NextDialect == InvokeDialect \/ Legacy \/ Modern \/ TickControl

SpecDialect == InitDialect /\ [][NextDialect]_vars

\* The resets: inverterReset() and inverterResetNow() at midnight, at 00:15
\* and at 01:00, charging enabled or not
InitReset ==
  /\ InitControl
  /\ flags.dischargingEnabled

InvokeReset == InvokeAny({"reset", "resetNow"})

TickReset == Tick({DayMs, DayMs + QuarterMs, DayMs + 2 * SlotMs})

NextReset == InvokeReset \/ Firmware \/ Legacy \/ Modern \/ TickReset

SpecReset == InitReset /\ [][NextReset]_vars

------------------------------------------------------------\* The statistics over several days: update() of today with a morning or an
\* evening sample, the clock from midnight to midnight over the days
\* 1..MaxDay
AverageOffsets == {2 * SlotMs, 46 * SlotMs}

AverageSamples(dateIndex) ==
  {Sample(v, dateIndex + off) : v \in {x \in Variants : x.homeLoadTodayEnergy # 0},
                                 off \in AverageOffsets}

UpdateAverage ==
  \E s \in AverageSamples(AtMidnight(0)) : Update(0, [kind |-> "ok", data |-> <<s>>])

TickAverage == Tick({d * DayMs : d \in 1..MaxDay})

NextAverage == UpdateAverage \/ TickAverage

\* The keys of the store: update() of today and of yesterday, the vendor's
\* samples, at most two in a response, stamped at 01:00 or, as in its
\* five-minute series, at 01:05
KeyOffsets == {2 * SlotMs, 2 * SlotMs + 300000}

UpdateKeys ==
  \E offset \in {-1, 0} :
    /\ AtMidnight(offset) >= DayMs
    /\ \E resp \in DayResponses(AtMidnight(offset), KeyOffsets, 2) : Update(offset, resp)

TickKeys == Tick({DayMs, 2 * DayMs})

NextKeys == UpdateKeys \/ TickKeys

SpecKeys == Init /\ [][NextKeys]_vars

\* Signing: the arguments range over two values each, the empty string
\* standing for an argument left out; the clock moves by seconds
Bodies == {[type |-> "object", text |-> "a:1"], [type |-> "string", text |-> "a:1"]}

SignArguments ==
  [body : Bodies, url : {"/v2/api/control", "/v1/api/inverterDay"},
   method : {"", "POST", "GET"}, contentType : {"", "application/json"},
   date : {"", "Mon, 01 Jan 2024 00:00:00 GMT", "Tue, 02 Jan 2024 00:00:00 GMT"},
   secret : {"secret-1", "secret-2"}]

SignAny == \E args \in SignArguments : Sign(args)

ApiAny ==
  \E url \in {"/v2/api/control", "/v1/api/inverterDay"} : \E payload \in Bodies :
    \E method \in {"", "POST"} : Api(url, payload, method)

TickSign == Tick({DayMs + 1000, DayMs + 2000})

NextSign == SignAny \/ ApiAny \/ TickSign

SpecSign == InitCredentials /\ [][NextSign]_vars

\* the statistics do not read movingAveragePeriod
InitAverage == Init /\ movingAveragePeriod = 1

SpecAverage == InitAverage /\ [][NextAverage]_vars

----------------
(* Claims about the time-series store *)

SampleKey(dateIndex, snapshot) == <<dateIndex, snapshot.dataTimestamp>>

LastDateIndex == DateIndexOf(now) + last.offset * DayMs

\* C1: a stored snapshot is never removed or changed by update(): every key
\* of the store keeps its document over every step, whatever the samples
\* of the response carry.
C1_WriteOnce ==
  [][\A k \in DOMAIN data : k \in DOMAIN data' /\ data'[k] = data[k]]_vars

\* the last update() met a sample, not a zero-load one, whose key held other values
C1_Witness ==
  /\ last.op = "update" /\ last.ret = "ok"
  /\ \E i \in 1..Len(last.resp.data) :
       LET s == last.resp.data[i] IN
       /\ s.homeLoadTodayEnergy # 0
       /\ SampleKey(LastDateIndex, s) \in DOMAIN data
       /\ data[SampleKey(LastDateIndex, s)] # Document(s)

\* C2: no stored snapshot has houseLoadTotal 0, and after an update() every
\* sample of its response with a non-zero load has its key in the store,
\* zero-load samples of the same key notwithstanding.
C2_ZeroSuppressed ==
  /\ [](\A k \in DOMAIN data : data[k].houseLoadTotal # 0)
  /\ [][(last'.op = "update" /\ last'.ret = "ok") =>
          \A i \in 1..Len(last'.resp.data) :
            last'.resp.data[i].homeLoadTodayEnergy # 0 =>
              SampleKey(DateIndexOf(now') + last'.offset * DayMs, last'.resp.data[i])
                \in DOMAIN data']_vars

\* the last update(), on an empty store, was given a zero-load sample and after
\* it a sample of the same key, which is the one stored
C2_Witness ==
  /\ last.op = "update" /\ last.ret = "ok" /\ last.before = {}
  /\ Len(last.resp.data) = 2
  /\ last.resp.data[1].homeLoadTodayEnergy = 0
  /\ last.resp.data[2].homeLoadTodayEnergy # 0
  /\ last.resp.data[1].dataTimestamp = last.resp.data[2].dataTimestamp
  /\ SampleKey(LastDateIndex, last.resp.data[2]) \in DOMAIN data
  /\ data[SampleKey(LastDateIndex, last.resp.data[2])] = Document(last.resp.data[2])

\* the sample a boundary stands for: the one at it, else the nearer neighbour
SampleAt(dateIndex, timeIndex) ==
  IF <<dateIndex, timeIndex>> \in DOMAIN data THEN data[<<dateIndex, timeIndex>>]
  ELSE data[<<dateIndex, Nearest(data, dateIndex, timeIndex)>>]

RECURSIVE SumOf(_, _)
SumOf(h, name) == IF h = <<>> THEN 0 ELSE Head(h)[name].v + SumOf(Tail(h), name)

\* C7: for every stored day and cumulative field, the deltas of
\* getHistory are numbers and sum to the last minus the first cumulative value
\* over the boundaries returned.
C7_DeltaCorrectness ==
  \A dateIndex \in DateKeys(data) :
    LET h == getHistory(data, dateIndex, now) IN
    \A name \in SumNames :
      /\ \A i \in 1..Len(h) : IsNum(h[i][name])
      /\ h # <<>> =>
           SumOf(h, name) = SampleAt(dateIndex, dateIndex + Len(h) * SlotMs)[name]
                            - SampleAt(dateIndex, dateIndex + SlotMs)[name]

\* the times powerAt is asked about: every quarter of an hour up to 03:00
ProbeTimes(dateIndex) == {dateIndex + q * QuarterMs : q \in 1..12}

\* C8: powerAt returns batteryLevel, houseLoadTotal, gridExportTotal,
\* gridImportTotal and pvOutputTotal of the sample at timeIndex, else of the
\* nearer neighbour (the earlier on a tie), else of the only neighbour.
C8_PowerAtOneSample ==
  \A dateIndex \in DateKeys(data) : \A timeIndex \in ProbeTimes(dateIndex) :
    LET doc == SampleAt(dateIndex, timeIndex) IN
    powerAt(data, dateIndex, timeIndex) =
      [batteryLevel |-> Num(doc.batteryLevel), houseLoadTotal |-> Num(doc.houseLoadTotal),
       gridExportTotal |-> Num(doc.gridExportTotal),
       gridImportTotal |-> Num(doc.gridImportTotal),
       pvOutputTotal |-> Num(doc.pvOutputTotal)]

\* the n most recent days of S
MostRecent(S, n) == {x \in S : Cardinality({y \in S : y > x}) < n}

\* C10 as claimed: after cleardown() the movingAveragePeriod most recent days
\* remain.
C10_KeepsPeriodDays ==
  last.op = "cleardown" => DateKeys(data) = MostRecent(last.before, movingAveragePeriod)

\* C10: after cleardown() exactly the movingAveragePeriod + 1 most recent
\* days remain (all of them if there were no more).
C10_KeepsPeriodPlusOneDays ==
  last.op = "cleardown" => DateKeys(data) = MostRecent(last.before, movingAveragePeriod + 1)

\* a cleardown() that found more days than it keeps
C10_Witness ==
  /\ last.op = "cleardown"
  /\ Cardinality(last.before) > movingAveragePeriod + 1
  /\ Cardinality(DateKeys(data)) = movingAveragePeriod + 1

\* C11: restore(), told to clear, empties the whole store first, then attempts
\* update() for today and for each past day of the retained window, in
\* sequence, whether or not any of these updates fails.
C11_RestoreAttemptsEveryDay ==
  (last.op = "restore" /\ last.cleared) =>
    /\ DateKeys(data) \subseteq {DateIndexOf(now) - i * DayMs : i \in 0..movingAveragePeriod}
    /\ last.attempts = [i \in 1..(movingAveragePeriod + 1) |-> 1 - i]

\* the configuration is absent, or lacks inverterSn, key or secret
Incomplete == ~config.exists \/ ~config.inverterSn \/ ~config.key \/ ~config.secret

\* C16: update() under incomplete credentials returns an error, issues no
\* network call and leaves the store as it is; any update() that returns an
\* error (status other than 200, an exception, data missing or not an array)
\* writes no snapshot.
C16_ErrorWritesNothing ==
  [][last'.op = "update" =>
       /\ Incomplete => last'.ret = "error" /\ last'.calls = <<>> /\ data' = data
       /\ last'.resp.kind \in {"status", "exception", "nodata", "notarray"} => last'.ret = "error"
       /\ last'.ret = "error" => data' = data]_vars

\* update() has returned an error for want of the secret alone
C16_Witness ==
  /\ last.op = "update" /\ last.ret = "error" /\ last.calls = <<>>
  /\ config = [Complete EXCEPT !.secret = FALSE]

----------------------------------------------------------------------------
(* Claims about the control operations *)

\* invocation p starts in this step
Starts(p) == proc[p].pc \in {"idle", "done"} /\ proc'[p] # proc[p]


Calls(pr) == {pr.trace[i] : i \in {j \in 1..Len(pr.trace) : pr.trace[j].kind = "call"}}

Events(pr) == {pr.trace[i] : i \in 1..Len(pr.trace)}

\* the operation was started without override while its enable flag was off
Gated(pr) ==
  /\ pr.pc # "idle" /\ ~pr.override
  /\ \/ pr.op \in {"charge", "gridOnly"} /\ ~flags.chargingEnabled
     \/ pr.op = "discharge" /\ ~flags.dischargingEnabled

\* C3: every control operation ends by returning a status or an error
\* object; none raises an exception.
C3_NeverThrows ==
  \A p \in DOMAIN proc : proc[p].pc = "done" => proc[p].ret.kind \in {"status", "error"}

\* C4: a slot operation started without override while its flag is off
\* returns at once: no remote call, no charge-history record, no call of the
\* battery collaborator, nothing changed; started with override it goes on
\* to its first remote call.
C4_GatingHasNoEffect ==
  /\ [](\A p \in DOMAIN proc :
          /\ Gated(proc[p]) => /\ proc[p].pc = "done" /\ proc[p].ret.kind = "status"
                               /\ proc[p].trace = <<>>
          /\ (proc[p].pc # "idle" /\ proc[p].override /\ proc[p].op \in SlotOps)
               => Calls(proc[p]) # {})
  /\ [][\A p \in DOMAIN proc :
          (Gated(proc'[p]) /\ proc'[p] # proc[p]) =>
             /\ chargeHistory' = chargeHistory
             /\ dischargeControlFlag' = dischargeControlFlag
             /\ firmwareVersion' = firmwareVersion
             /\ inverter' = inverter]_vars

\* chargeSlot was skipped although a battery level was at hand for the
\* history record and the firmware was still to be found out
C4_Witness ==
  \E p \in DOMAIN proc :
    /\ Gated(proc[p]) /\ proc[p].op = "charge" /\ proc[p].pc = "done"
    /\ Truthy(batteryLevelNow) /\ firmwareVersion = "" /\ chargeHistory = <<>>

\* C5: every successful gridOnlySlot / gridOnlyBetween sends current 0:
\* fields 0 and 1 of the settings string pushed, the value of the write of
\* the discharge current limit (5967).
C5_GridOnlyZeroCurrent ==
  \A p \in DOMAIN proc :
    (proc[p].op \in {"gridOnly", "gridOnlyBetween"} /\ proc[p].ret.kind = "status") =>
      \A c \in {x \in Calls(proc[p]) : x.url = "/v2/api/control"} :
        /\ c.cid = 4643 => c.fields[1] = "0" /\ c.fields[2] = "0"
        /\ c.cid = 5967 => c.value = "0"

\* C6: dischargeSlot has called battery.unsetDischargeControlFlag() when it
\* returns a success status, and has not when it returns an error or was
\* skipped.
C6_FlagClearedOnSuccess ==
  \A p \in DOMAIN proc :
    (proc[p].op = "discharge" /\ proc[p].pc = "done") =>
      ((proc[p].ret.kind = "status" /\ ~Gated(proc[p])) <=> UnsetFlag \in Events(proc[p]))

\* the first record with a software version, as the vendor sent it
FirstNonEmpty(records) ==
  records[CHOOSE i \in 1..Len(records) :
            records[i] # <<>> /\ \A j \in 1..(i - 1) : records[j] = <<>>]

\* C9 as claimed: 'post-4B00' exactly if the version begins with '4' (52) and
\* its second character has a code point >= 66.
C9_ClassifiedByCodePoint ==
  \A p \in DOMAIN proc :
    proc[p].classified =>
      LET v == FirstNonEmpty(proc[p].records) IN
      firmwareVersion = IF v[1] = 52 /\ Len(v) >= 2 /\ v[2] >= 66
                          THEN "post-4B00" ELSE "pre-4B00"

\* C9: 'post-4B00' exactly if the version begins with '4' and its second
\* character, upper-cased, has a code point >= 66: that is every code point
\* >= 66 but 'a' (97), which upper-cases to 'A' (65).
C9_ClassifiedUpperCased ==
  \A p \in DOMAIN proc :
    proc[p].classified =>
      LET v == FirstNonEmpty(proc[p].records) IN
      firmwareVersion = IF v[1] = 52 /\ Len(v) >= 2 /\ v[2] >= 66 /\ v[2] # 97
                          THEN "post-4B00" ELSE "pre-4B00"

\* '4a99', behind a record without a version, was classified
C9_Witness ==
  \E p \in DOMAIN proc :
    /\ proc[p].classified
    /\ proc[p].records = <<<<>>, V4a99>>
    /\ firmwareVersion = "pre-4B00"

\* C12: inverterCharge(), past its enable gate, writes the start record of the
\* current slot (start = battery level, startMinute = minute) before its first
\* remote call, whatever the battery level from 0 to 100.
C12_StartRecorded ==
  [][\A p \in DOMAIN proc :
       (Starts(p) /\ proc'[p].op = "charge" /\ ~Gated(proc'[p]) /\ batteryLevelNow # <<>>) =>
          /\ <<SlotTimeIndex(now), "start">> \in DOMAIN chargeHistory'
          /\ chargeHistory'[<<SlotTimeIndex(now), "start">>] = batteryLevelNow[1]
          /\ chargeHistory'[<<SlotTimeIndex(now), "startMinute">>] = Minute(now)
          /\ proc'[p].trace[1] = HistoryStart]_vars

\* C13: when inverterCharge() starts, the record of the slot before, if there
\* is one, gets the battery level as its end; end is written under no slot
\* without a record.
C13_EndFilledByNextCharge ==
  [][/\ \A p \in DOMAIN proc :
          (/\ Starts(p) /\ proc'[p].op = "charge" /\ ~Gated(proc'[p])
           /\ batteryLevelNow # <<>>
           /\ <<PreviousSlotTimeIndex(now), "start">> \in DOMAIN chargeHistory) =>
             /\ <<PreviousSlotTimeIndex(now), "end">> \in DOMAIN chargeHistory'
             /\ chargeHistory'[<<PreviousSlotTimeIndex(now), "end">>] = batteryLevelNow[1]
     /\ \A k \in DOMAIN chargeHistory' \ DOMAIN chargeHistory :
          k[2] = "end" => <<k[1], "start">> \in DOMAIN chargeHistory]_vars

\* the control writes of an invocation
ControlCalls(pr) == {c \in Calls(pr) : c.url = "/v2/api/control"}

\* inverterReset() started in this step at a time of day where the reset is
\* due (inverterResetNow() is run, which goes to its first remote call if
\* charging is enabled and issues none if not), or where it is not (no
\* remote call, a status returned)
ResetGuard(p, due) ==
  (Starts(p) /\ proc'[p].op = "reset") =>
    IF due THEN IF flags.chargingEnabled
                  THEN proc'[p].pc # "done" /\ Calls(proc'[p]) # {}
                  ELSE proc'[p].pc = "done" /\ proc'[p].trace = <<>>
    ELSE /\ proc'[p].pc = "done" /\ proc'[p].ret.kind = "status"
         /\ proc'[p].trace = <<>>

\* the calls of a reset that has succeeded push the reset settings
ResetPushed(pr) ==
  (pr.op = "reset" /\ pr.pc = "done" /\ pr.ret.kind = "status" /\ pr.trace # <<>>) =>
    /\ ControlCalls(pr) # {}
    /\ \A c \in ControlCalls(pr) :
         /\ c.cid = 4643 => /\ c.fields[1] = "0" /\ c.fields[2] = "0"
                            /\ c.fields[3] = NoWindow /\ c.fields[4] = NoWindow
         /\ c.cid = 5946 => c.value = NoWindow

\* C14 as claimed: inverterReset() runs the reset when invoked at the top of
\* an hour (minute 0); at any other time it issues no remote call and returns
\* a status.
C14_ResetAtTopOfHour == [][\A p \in DOMAIN proc : ResetGuard(p, Minute(now) = 0)]_vars

\* C14: inverterReset() runs the reset only when invoked while the time of
\* day reads 00:00; at any other time, the top of another hour included, it
\* issues no remote call and returns a status.
C14_ResetAtMidnightOnly ==
  /\ [][\A p \in DOMAIN proc : ResetGuard(p, TimeText(now) = "00:00")]_vars
  /\ [](\A p \in DOMAIN proc : ResetPushed(proc[p]))

\* inverterReset() was invoked at 01:00 with charging enabled and did nothing
C14_Witness ==
  \E p \in DOMAIN proc :
    /\ proc[p].op = "reset" /\ proc[p].pc = "done" /\ proc[p].trace = <<>>
    /\ proc[p].ret = Status("Inverter reset only done at midnight")
    /\ TimeText(now) = "01:00" /\ flags.chargingEnabled
    /\ inverter.settings # InitialSettings

\* the operation was skipped on purpose: its enable flag is off and no
\* override was given, or it is a scheduled reset off its time
Skipped(pr) ==
  /\ pr.pc = "done" /\ pr.trace = <<>>
  /\ \/ Gated(pr)
     \/ pr.op = "resetNow" /\ ~pr.override /\ ~flags.chargingEnabled
     \/ pr.op = "reset"

\* C15: every operation skipped on purpose returns a status, not an error.
C15_SkippedIsStatus ==
  \A p \in DOMAIN proc : Skipped(proc[p]) => proc[p].ret.kind = "status"

\* C17: every control operation invoked under incomplete credentials returns
\* an error before any network call is issued.
C17_UnconfiguredControlFails ==
  \A p \in DOMAIN proc :
    (Incomplete /\ proc[p].pc # "idle") =>
      /\ proc[p].pc = "done" /\ proc[p].ret.kind = "error"
      /\ Calls(proc[p]) = {}

\* C18: once a remote call of an invocation has yielded an error, the
\* invocation issues no further call and returns an error; and no invocation
\* issues the same call twice.
C18_FailFast ==
  \A p \in DOMAIN proc :
    /\ proc[p].failed => proc[p].pc = "done" /\ proc[p].ret.kind = "error"
    /\ \A i, j \in 1..Len(proc[p].trace) :
         (i # j /\ proc[p].trace[i].kind = "call") => proc[p].trace[i] # proc[p].trace[j]

\* the calls invocation p issues in this step
NewCalls(p) == IF Starts(p) THEN Calls(proc'[p]) ELSE Calls(proc'[p]) \ Calls(proc[p])

FirmwareUrls == {"/v1/api/inverterDetail", "/v1/api/inverterList"}

PushesWindow(pr, c) ==
  \/ c.cid = 4643 /\ Window(pr.from, pr.to) \in {c.fields[3], c.fields[4]}
  \/ c.cid \in {5946, 5964} /\ c.value = Window(pr.from, pr.to)

\* C20: chargeBetween, dischargeBetween and gridOnlyBetween are gated by no
\* flag: whatever chargingEnabled and dischargingEnabled are, they go to their
\* remote calls and, unless one of these fails, push the caller's window.
C20_BetweenBypassesGate ==
  \A p \in DOMAIN proc :
    (proc[p].op \in BetweenOps /\ proc[p].pc # "idle") =>
      /\ Calls(proc[p]) # {}
      /\ (proc[p].pc = "done" /\ proc[p].ret.kind # "error") =>
           /\ proc[p].ret.kind = "status"
           /\ \E c \in ControlCalls(proc[p]) : PushesWindow(proc[p], c)

\* C25 as stated: every stored snapshot lies on a half-hour boundary of the
\* day it is filed under: timeIndex - dateIndex is a multiple of 1,800,000 ms,
\* at least 0 and less than one day.
C25_KeysOnHalfHours ==
  \A k \in DOMAIN data :
    /\ k[2] - k[1] >= 0
    /\ k[2] - k[1] < DayMs
    /\ (k[2] - k[1]) % 1800000 = 0

\* C25: every snapshot update() stores is filed under the midnight of the
\* day asked for and under the dataTimestamp the vendor gave it, as it is,
\* and is the document of that sample; it lies on a half-hour boundary only
\* if the vendor's timestamp does.
C25_KeysAreVendorTimestamps ==
  [][\A k \in DOMAIN data' \ DOMAIN data :
       /\ last'.op = "update"
       /\ k[1] = AtMidnight(last'.offset)
       /\ \E i \in 1..Len(last'.resp.data) :
            /\ last'.resp.data[i].dataTimestamp = k[2]
            /\ data'[k] = Document(last'.resp.data[i])]_vars

\* a snapshot is stored off the half-hour boundaries
C25_Witness ==
  /\ last.op = "update"
  /\ \E k \in DOMAIN data \ {x \in DOMAIN data : x[1] \in last.before} :
       (k[2] - k[1]) % SlotMs # 0

----------------------------------------------------------------------------
(* Claims about signing *)

\* METHOD, MD5, CONTENT-TYPE, DATE and URL-PATH, one to a line
FiveLines(method, digest, contentType, date, url) ==
  method \o "\n" \o digest \o "\n" \o contentType \o "\n" \o date \o "\n" \o url

\* the string-to-sign of the request api() has built
ApiSigned(request) ==
  FiveLines(request.method, request.md5, "application/json", request.date, request.url)

\* C26: the string-to-sign is the method, the MD5 of the body, the content
\* type, the date and the url path, joined by line feeds; Authorization is
\* 'API ' + key + ':' + signature of that string under the secret; two calls
\* with the same arguments, the date among them, give the same result; and
\* signing changes nothing else.
C26_SignatureDeterministic ==
  /\ [](last.op = "sign" /\ last.args.date # "" =>
          /\ last.sts.stringToSign =
               FiveLines(OrText(last.args.method, "POST"), last.sts.md5,
                         OrText(last.args.contentType, "application/json;charset=UTF-8"),
                         last.args.date, last.args.url)
          /\ last.sts.md5 = md5(BodyText(last.args.body))
          /\ last.signature = signature(last.sts.stringToSign, last.args.secret))
  /\ [](last.op = "api" =>
          /\ last.request.md5 = md5(BodyText(last.args.body))
          /\ last.request.auth =
               "API " \o KeyValue \o ":" \o signature(ApiSigned(last.request), SecretValue))
  /\ [][(last.op = "sign" /\ last'.op = "sign" /\ last'.args = last.args
           /\ last.args.date # "") => last' = last]_vars
  /\ [][(last.op = "api" /\ last'.op = "api" /\ last'.args = last.args
           /\ last'.request.date = last.request.date) => last'.request = last.request]_vars
  /\ [][(last'.op \in {"sign", "api"} /\ last' # last) =>
          UNCHANGED <<now, data, movingAveragePeriod, ctlVars>>]_vars

\* a request signed by api() with key and secret set, after the clock moved
C26_Witness ==
  /\ last.op = "api"
  /\ now > DayMs
  /\ last.at = now
  /\ KeyValue # "" /\ SecretValue # ""
  /\ last.request.auth = "API key-1:hmac-sha1(secret-1," \o ApiSigned(last.request) \o ")"

----------------------------------------------------------------------------
(* Claims about the statistics *)

\* the windows asked about, as pairs of time indices: yesterday 22:00 to
\* today 02:00, yesterday 00:30 to today 02:00, today 00:30 to 23:30, today
\* 22:00 to 23:00
AverageWindows ==
  {<<AtMidnight(-1) + 44 * SlotMs, AtMidnight(0) + 4 * SlotMs>>,
   <<AtMidnight(-1) + SlotMs, AtMidnight(0) + 4 * SlotMs>>,
   <<AtMidnight(0) + SlotMs, AtMidnight(0) + 47 * SlotMs>>,
   <<AtMidnight(0) + 44 * SlotMs, AtMidnight(0) + 46 * SlotMs>>}

SamePower(a, b) ==
  /\ a.kind = b.kind
  /\ a.kind = "power" => QuotientEq(a.load, b.load) /\ QuotientEq(a.pv, b.pv)

\* the stored sample day dateIndex shows for timeIndex: the one at it, else
\* the next, else the one before
Shown(dateIndex, timeIndex) ==
  LET keys == TimeKeys(data, dateIndex) IN
  IF timeIndex \in keys THEN data[<<dateIndex, timeIndex>>]
  ELSE IF \E t \in keys : t > timeIndex
    THEN data[<<dateIndex, SetMin({t \in keys : t > timeIndex})>>]
  ELSE data[<<dateIndex, SetMax(keys)>>]

\* the rise of a cumulative field between two times of day, summed over the
\* n days before today
RECURSIVE RiseOver(_, _, _, _)
RiseOver(n, from, to, name) ==
  IF n = 0 THEN 0
  ELSE LET day == AtMidnight(0 - n) IN
       RiseOver(n - 1, from, to, name)
       + Shown(day, atTime(to, day))[name] - Shown(day, atTime(from, day))[name]

\* C21: the average over a window that starts and ends on different days is
\* the sum of the average from its start to 23:30 and of the average from
\* 00:00 to its end, both over the same days: the total of the two rises
\* over these days, divided by their number; the average over a window
\* within one day is averagePowerBetween of its two times.
C21_MidnightSplit ==
  \A w \in AverageWindows :
    LET from == TimeOfDay(w[1])
        to == TimeOfDay(w[2])
        power == averagePowerBetweenTimeIndices(data, w[1], w[2])
        count == Cardinality(HistoryDays(data))
    IN  IF DateIndexOf(w[1]) = DateIndexOf(w[2])
          THEN SamePower(power, averagePowerBetween(data, from, to))
        ELSE /\ SamePower(power, PowerPlus(averagePowerBetween(data, from, <<23, 30>>),
                                           averagePowerBetween(data, <<0, 0>>, to)))
             /\ (power.kind = "power" /\ DOMAIN data # {} /\ count > 0) =>
                  /\ QuotientEq(power.load,
                       Quotient(RiseOver(count, from, <<23, 30>>, "houseLoadTotal")
                                + RiseOver(count, <<0, 0>>, to, "houseLoadTotal"), count))
                  /\ QuotientEq(power.pv,
                       Quotient(RiseOver(count, from, <<23, 30>>, "pvOutputTotal")
                                + RiseOver(count, <<0, 0>>, to, "pvOutputTotal"), count))

\* two days of history, and a window over midnight both parts of which
\* show a rise
C21_Witness ==
  /\ DOMAIN data # {}
  /\ Cardinality(HistoryDays(data)) = 2
  /\ \E w \in AverageWindows :
       /\ DateIndexOf(w[1]) # DateIndexOf(w[2])
       /\ averagePowerBetweenTimeIndices(data, w[1], w[2]).kind = "power"
       /\ averagePowerBetween(data, TimeOfDay(w[1]), <<23, 30>>).load.num > 0
       /\ averagePowerBetween(data, <<0, 0>>, TimeOfDay(w[2])).load.num > 0

\* no complete day of history: the store is empty or holds one day only
NoHistory == DOMAIN data = {} \/ HistoryDays(data) = {}

\* C22: with no complete day of history, averagePowerBetween and profile
\* both return a result that says so, and no load or pv figure.
C22_NoHistorySignalled ==
  NoHistory =>
    /\ profile(data).kind = "error"
    /\ \A w \in AverageWindows :
         averagePowerBetween(data, TimeOfDay(w[1]), TimeOfDay(w[2])).kind = "error"

\* the houseLoadTotal readings of the day fall at some point
Decreasing(dateIndex) ==
  \E t1, t2 \in TimeKeys(data, dateIndex) :
    t1 < t2 /\ data[<<dateIndex, t2>>].houseLoadTotal < data[<<dateIndex, t1>>].houseLoadTotal

\* C23: with at least one complete day of history, whether or not the
\* readings of a day fall, profile has 47 entries, each a number not below 0.
C23_ProfileNonNegative ==
  ~NoHistory =>
    \A p \in {profile(data)} :
      /\ p.kind = "profile"
      /\ DOMAIN p.totals = 1..47
      /\ \A i \in DOMAIN p.totals : IsNum(p.totals[i]) /\ p.totals[i].v >= 0

\* a day of history with falling readings, and a profile with a positive entry
C23_Witness ==
  /\ ~NoHistory
  /\ \E dateIndex \in HistoryDays(data) : Decreasing(dateIndex)
  /\ \E p \in {profile(data)} : \E i \in 1..NSlots : p.totals[i].v > 0

\* the first sample recorded for the day
FirstRecorded(dateIndex) == data[<<dateIndex, SetMin(TimeKeys(data, dateIndex))>>]

\* C24: in getHistory the differences of the first slot of a stored day are
\* taken from the day's first recorded cumulative values, not from zero.
C24_FirstSlotBaseline ==
  \A dateIndex \in DateKeys(data) :
    \A h \in {getHistory(data, dateIndex, now)} :
      h # <<>> =>
        \A name \in SumNames :
          h[1][name] = Num(Round2(SampleAt(dateIndex, dateIndex + SlotMs)[name]
                                  - FirstRecorded(dateIndex)[name]))

\* the rise of a cumulative field between two times of day, summed over the
\* stored days given, each read from its own samples
RECURSIVE RiseOnDays(_, _, _, _)
RiseOnDays(days, from, to, name) ==
  IF days = {} THEN 0
  ELSE LET day == SetMax(days) IN
       RiseOnDays(days \ {day}, from, to, name)
       + Shown(day, atTime(to, day))[name] - Shown(day, atTime(from, day))[name]

\* C31: with at least one complete day of history, whichever days are stored
\* and whether or not the last stored day is today, averagePowerBetween
\* returns numbers and does not throw, and they are the rises of the stored
\* complete days, each read from that day's own samples, divided by the
\* number of these days.
C31_OwnDayData ==
  ~NoHistory =>
    \A w \in {x \in AverageWindows : DateIndexOf(x[1]) = DateIndexOf(x[2])} :
      \A power \in {averagePowerBetween(data, TimeOfDay(w[1]), TimeOfDay(w[2]))} :
        /\ power.kind = "power"
        /\ QuotientEq(power.load,
             Quotient(RiseOnDays(HistoryDays(data), TimeOfDay(w[1]), TimeOfDay(w[2]),
                                 "houseLoadTotal"),
                      Cardinality(HistoryDays(data))))
        /\ QuotientEq(power.pv,
             Quotient(RiseOnDays(HistoryDays(data), TimeOfDay(w[1]), TimeOfDay(w[2]),
                                 "pvOutputTotal"),
                      Cardinality(HistoryDays(data))))

\* the writes of the modern dialect among the calls of an invocation, in the
\* order issued
IsModernWrite(c) ==
  c.kind = "call" /\ c.url = "/v2/api/control" /\ c.cid \in {5948, 5928, 5946, 5967, 5965, 5964}

ModernWrites(pr) == SelectSeq(pr.trace, IsModernWrite)

\* the writes of a charge, of a discharge: id and, where fixed, value
ChargeWrites(pr) ==
  <<[cid |-> 5948, values |-> {ToString(c) : c \in 0..100}],
    [cid |-> 5928, values |-> {"100"}],
    [cid |-> 5946, values |-> {Window(pr.from, pr.to)}]>>

DischargeWrites(pr) ==
  <<[cid |-> 5967, values |-> {ToString(c) : c \in 0..100}],
    [cid |-> 5965, values |-> {"0"}],
    [cid |-> 5964, values |-> {Window(pr.from, pr.to)}]>>

FollowsWrites(w, expected) ==
  /\ Len(w) <= 3
  /\ \A i \in 1..Len(w) : w[i].cid = expected[i].cid /\ w[i].value \in expected[i].values

\* C27: under the modern dialect a charge writes 5948 (current), 5928 (100)
\* and 5946 (window), a discharge 5967 (current), 5965 (0) and 5964 (window),
\* in that order; a write follows only writes that succeeded; and a success
\* is returned only after the three succeeded.
C27_ModernProtocol ==
  \A p \in DOMAIN proc :
    \A w \in {ModernWrites(proc[p])} :
      /\ proc[p].pc \in {"modern1", "modern2", "modern3"} =>
           /\ ~proc[p].failed
           /\ Len(w) = (CASE proc[p].pc = "modern1" -> 1 [] proc[p].pc = "modern2" -> 2
                            [] OTHER -> 3)
      /\ w # <<>> =>
           /\ proc[p].op \in {"charge", "chargeBetween"} => FollowsWrites(w, ChargeWrites(proc[p]))
           /\ proc[p].op \in {"discharge", "dischargeBetween"} =>
                FollowsWrites(w, DischargeWrites(proc[p]))
           /\ FollowsWrites(w, ChargeWrites(proc[p])) \/ FollowsWrites(w, DischargeWrites(proc[p]))
           /\ proc[p].failed => proc[p].pc = "done" /\ proc[p].ret.kind = "error"
           /\ (proc[p].pc = "done" /\ proc[p].ret.kind # "error") =>
                Len(w) = 3 /\ ~proc[p].failed /\ proc[p].ret.kind = "status"

\* a discharge under the modern dialect has succeeded after its three writes
C27_Witness ==
  \E p \in DOMAIN proc :
    /\ firmwareVersion = "post-4B00"
    /\ proc[p].op = "discharge"
    /\ proc[p].pc = "done" /\ proc[p].ret.kind = "status"
    /\ Len(ModernWrites(proc[p])) = 3

IsRead(c) == c.kind = "call" /\ c.url = "/v2/api/atRead" /\ c.cid = 4643

IsLegacyWrite(c) == c.kind = "call" /\ c.url = "/v2/api/control" /\ c.cid = 4643

\* the positions, among the events of the invocation, of those Test holds of
Positions(pr, Test(_)) == {i \in 1..Len(pr.trace) : Test(pr.trace[i])}

\* C28: an operation under the legacy dialect issues one atRead of 4643 and
\* after it at most one control write of 4643; the write is issued only if
\* the read succeeded, and pushes the msg read by this invocation with
\* fields rewritten.
C28_ReadBeforeWrite ==
  /\ [](\A p \in DOMAIN proc :
          \A reads \in {Positions(proc[p], IsRead)} :
            \A writes \in {Positions(proc[p], IsLegacyWrite)} :
              /\ Cardinality(reads) <= 1 /\ Cardinality(writes) <= 1
              /\ proc[p].pc \in {"read", "write"} => Cardinality(reads) = 1
              /\ proc[p].pc = "read" => writes = {}
              /\ writes # {} =>
                   /\ \E r \in reads : \A w \in writes : r < w
                   /\ proc[p].read = "ok"
                   /\ \A w \in writes :
                        /\ Len(proc[p].trace[w].fields) = Len(proc[p].msg)
                        /\ \A i \in {5, 6, 8, 9, 10} :
                             proc[p].trace[w].fields[i] = proc[p].msg[i]
              /\ (reads # {} /\ proc[p].pc = "done" /\ proc[p].read # "ok") =>
                   writes = {} /\ proc[p].ret.kind = "error")
  /\ [][\A p \in DOMAIN proc :
          (proc[p].pc = "read" /\ proc'[p].pc = "write") =>
            proc'[p].msg = inverter.settings]_vars

\* an operation has read, written and succeeded; the string it pushed
\* differs from the one it read
C28_Witness ==
  \E p \in DOMAIN proc :
    /\ proc[p].pc = "done" /\ proc[p].ret.kind = "status"
    /\ \E r \in Positions(proc[p], IsRead) : \E w \in Positions(proc[p], IsLegacyWrite) :
         r < w /\ proc[p].trace[w].fields # proc[p].msg

\* fields 0 to 3 of the string an operation pushes
FirstFour(pr) ==
  CASE pr.op \in {"charge", "chargeBetween"} ->
         <<ToString(chargeCurrent), "0", Window(pr.from, pr.to), "00:00-00:00">>
    [] pr.op \in {"discharge", "dischargeBetween"} ->
         <<"0", ToString(dischargeCurrent), "00:00-00:00", Window(pr.from, pr.to)>>
    [] pr.op \in {"gridOnly", "gridOnlyBetween"} ->
         <<"0", "0", "00:00-00:00", Window(pr.from, pr.to)>>
    [] OTHER -> <<"0", "0", "00:00-00:00", "00:00-00:00">>

\* C29: the string a legacy operation pushes for an 11-field msg has 11
\* fields; fields 4, 5, 7, 8 and 9 are those of the msg, fields 6 and 10 are
\* 00:00-00:00, and fields 0 to 3 are (chargeCurrent, 0, from-to, 00:00-00:00)
\* for a charge, (0, dischargeCurrent, 00:00-00:00, from-to) for a discharge,
\* (0, 0, 00:00-00:00, from-to) for grid-only and (0, 0, 00:00-00:00,
\* 00:00-00:00) for a reset.
C29_RewritePositional ==
  \A p \in DOMAIN proc :
    \A w \in Positions(proc[p], IsLegacyWrite) :
      \A f \in {proc[p].trace[w].fields} :
        Len(proc[p].msg) = 11 =>
          /\ Len(f) = 11
          /\ \A i \in {4, 5, 7, 8, 9} : f[i + 1] = proc[p].msg[i + 1]
          /\ f[6 + 1] = "00:00-00:00" /\ f[10 + 1] = "00:00-00:00"
          /\ <<f[1], f[2], f[3], f[4]>> = FirstFour(proc[p])

\* a grid-only operation has rewritten a string an earlier operation pushed
C29_Witness ==
  \E p \in DOMAIN proc :
    /\ proc[p].op = "gridOnly"
    /\ Positions(proc[p], IsLegacyWrite) # {}
    /\ Len(proc[p].msg) = 11
    /\ proc[p].msg # InitialSettings

\* C30: whichever way two legacy operations interleave, the string a
\* successful write leaves in the inverter is the one its operation would
\* have pushed had it read the settings as they are when the write arrives,
\* after the other operation's write; and fields 4, 5, 7, 8 and 9 of the
\* inverter's settings never change.
C30_LastWriterWins ==
  /\ [][\A p \in DOMAIN proc :
          (proc[p].pc = "write" /\ proc'[p].pc = "done" /\ proc'[p].ret.kind = "status") =>
            /\ inverter'.settings = LastCall(proc[p]).fields
            /\ inverter'.settings = LegacyString(proc[p], inverter.settings)]_vars
  /\ [][\A i \in {4, 5, 7, 8, 9} :
          inverter'.settings[i + 1] = inverter.settings[i + 1]]_vars
  /\ [](Len(inverter.settings) = 11)

\* two different operations have both read the initial settings before
\* either wrote, and both have succeeded
C30_Witness ==
  /\ proc[1].op # proc[2].op
  /\ \A p \in DOMAIN proc :
       /\ proc[p].pc = "done" /\ proc[p].ret.kind = "status"
       /\ proc[p].msg = InitialSettings
       /\ Positions(proc[p], IsLegacyWrite) # {}
  /\ inverter.settings # InitialSettings

\* C32: under the modern dialect as under the legacy one, whatever was
\* done before, a charge that succeeds leaves the inverter's discharge window
\* (field 3 of its settings) at 00:00-00:00, and a discharge or a grid-only
\* operation that succeeds leaves its charge window (field 2) at 00:00-00:00.
C32_DialectEquivalence ==
  [][\A p \in DOMAIN proc :
       (proc[p].pc \in {"write", "modern3"} /\ proc'[p].pc = "done"
          /\ proc'[p].ret.kind = "status") =>
         /\ proc[p].op \in {"charge", "chargeBetween"} => inverter'.settings[3 + 1] = NoWindow
         /\ proc[p].op \in {"discharge", "dischargeBetween", "gridOnly", "gridOnlyBetween"} =>
              inverter'.settings[2 + 1] = NoWindow]_vars

\* the invocation has asked for the firmware
Asked(pr) == \E i \in 1..Len(pr.trace) : pr.trace[i].url = "/v1/api/inverterDetail"

\* C33: when an operation has asked for the firmware and setFirmwareVersion
\* ends without a classification (inverterDetail or inverterList failed, or
\* no record carries a version), the cache stays empty and the operation goes
\* on with atRead of 4643, its only new call; while the cache is empty no
\* operation issues a write of the modern dialect, and a write of 4643 comes
\* after an atRead; and the next operation that issues a call, the cache
\* still empty, starts with inverterDetail again.
C33_UnknownFallsBack ==
  /\ [][\A p \in DOMAIN proc :
          (proc[p].pc \in {"detail", "list"} /\ proc'[p].pc \notin {"detail", "list"}
             /\ ~proc'[p].classified) =>
            /\ firmwareVersion = "" /\ firmwareVersion' = ""
            /\ proc'[p].pc = "read"
            /\ IsRead(LastCall(proc'[p]))
            /\ Len(proc'[p].trace) = Len(proc[p].trace) + 1]_vars
  /\ [](firmwareVersion = "" =>
          \A p \in DOMAIN proc :
            /\ ModernWrites(proc[p]) = <<>>
            /\ proc[p].pc \notin {"modern1", "modern2", "modern3"}
            /\ \A w \in Positions(proc[p], IsLegacyWrite) :
                 /\ w > 1 /\ IsRead(proc[p].trace[w - 1])
                 /\ Asked(proc[p]))
  /\ [][\A p \in DOMAIN proc :
          (proc[p].pc = "done" /\ Asked(proc[p]) /\ firmwareVersion = "" /\ Starts(p)
             /\ Calls(proc'[p]) # {} /\ proc'[p].op # "syncClock") =>
            /\ proc'[p].pc = "detail"
            /\ LastCall(proc'[p]).url = "/v1/api/inverterDetail"]_vars

\* the cache is empty although an earlier operation has pushed a settings
\* string, and the operation now under way asks for the firmware again
C33_Witness ==
  /\ firmwareVersion = ""
  /\ inverter.settings # InitialSettings
  /\ \E p \in DOMAIN proc : proc[p].pc = "detail" /\ Asked(proc[p])

====
